---- MODULE Spec2Model ----
(***************************************************************************)
(* Orchestration layer of esnunes/prompter: the HTTP handlers of           *)
(* internal/server (create, send message, status poll, retry), the two     *)
(* background workers they start (asyncEnsureCloned, backgroundSendMessage)*)
(* the in-memory tables of Server (sessionMu, repoStatus, repoMu), the     *)
(* messages table of internal/db and the .git completion marker of         *)
(* internal/repo.                                                          *)
(*                                                                         *)
(* Every goroutine (a request being served, or a background worker) is a   *)
(* record in the bag `tasks`; one action is one step of one goroutine      *)
(* between two accesses to shared state.  Steps that touch no shared state *)
(* (parsing, rendering) are folded into the step before them.              *)
(***************************************************************************)
EXTENDS Naturals, Sequences, FiniteSets, Bags, TLC

\* ------------------------------------------------------------------ bounds
\* Goroutines (requests being served and background workers) live at the same time.
MaxTasks == 2
\* Rows the messages table may hold.
MaxMsgs == 3
\* Explicit retry requests over a run.
MaxRetries == 1
\* Messages in the list handed to buildTimeline.
MaxListed == 2
\* Revisions in the list handed to buildTimeline, and rows of the revisions table.
MaxRevs == 2
\* Storage calls that may fail over a run.
MaxFaults == 1

\* Prompt requests (conversations) and repository identities of the model.
PRs == {1}
Repos == {"r1"}

VARIABLES
    prRepo,      \* prompt_requests table: PR -> its repository, or "" when the row does not exist
    messages,    \* messages table in rowid order: id = position; [pr, role, ts]; ts = created_at
    gitDir,      \* filesystem: repository -> whether <localPath>/.git exists
    repoStatus,  \* Server.repoStatus: PR -> repoStatusEntry (the zero entry when absent)
    sessionMu,   \* Server.sessionMu: PR (its session id) -> mutex locked
    repoMu,      \* Server.repoMu: repository -> mutex locked
    tasks,       \* bag of live goroutines
    waitq,       \* history: PR -> kinds of the goroutines blocked in lockSession, in arrival order
    calls,       \* history: bag of the claude.SendMessage invocations started: [msg, resume]
    delivered,   \* history: bag of the ids of the messages returned by status polls
    pollReply,   \* output: PR -> payload of the status poll that the last step completed
    retries,     \* history: number of retry requests so far
    faults,      \* history: number of storage calls that failed so far
    revisions,   \* revisions table in rowid order: [pr, after]; after = after_message_id, 0 for NULL
    page,        \* output: the conversation page that the last step rendered
    lastPoll,    \* history: PR -> payload of the previous poll while only a later poll has acted since
    input,       \* argument of the pure function under study (buildTimeline, parseResponse)
    output,      \* value the function returned for input
    browser,     \* PR -> what the browser page of the conversation does: "none" (no
                 \* page is open), "polling" (it holds the polling element) or "idle"
    issueNumber, \* prompt_requests.issue_number: PR -> number of its issue, 0 for NULL
    issues,      \* the issue tracker: the PR each issue was created for; number = position
    prStatus,    \* prompt_requests.status: PR -> "draft", "published" or "deleted"
    rawReady     \* messages.raw_response: id -> whether the payload that the subprocess
                 \* returns for the row says prompt_ready (fixed in advance: no handler
                 \* writes the payload of a stored row)

vars == <<prRepo, messages, gitDir, repoStatus, sessionMu, repoMu, tasks,
          waitq, calls, delivered, pollReply, retries, faults,
          revisions, page, lastPoll, input, output, browser,
          issueNumber, issues, prStatus, rawReady>>

\* ------------------------------------------------------------- data types
\* repoStatusEntry{Status, Error}
Entry(status, err) == [Status |-> status, Error |-> err]

\* getRepoStatus returns the zero entry when the key is absent.
NoEntry == Entry("", "")

\* No payload: the step taken was not the end of a status poll.
NoReply == [Status |-> "none", Error |-> "", msg |-> 0]

NoReplies == [p \in PRs |-> NoReply]

\* A goroutine: kind, the prompt request it serves, its position, its locals
\* (cloned, op, err, msg = lastMsg, resume).  For a provisioning worker cloned
\* is what its starter read from repo.IsCloned; for an auto-dispatch worker
\* seen is the number of rows the messages table held when it was started.
Task(kind, pr, pc) ==
    [kind |-> kind, pr |-> pr, pc |-> pc, cloned |-> FALSE, op |-> "",
     err |-> "", msg |-> 0, resume |-> FALSE, seen |-> 0]

Live == BagToSet(tasks)

Spawned(bag, t) == bag (+) SetToBag({t})

Finished(bag, t) == bag (-) SetToBag({t})

Stepped(bag, t, u) == Spawned(Finished(bag, t), u)

\* A request is admitted while fewer than MaxTasks goroutines are live.
CanServe == BagCardinality(tasks) < MaxTasks

\* ------------------------------------------------------------ collaborators
\* repo.IsCloned: whether the completion marker of the repository exists.
IsCloned(r) == gitDir[r]

\* setRepoStatus: an unconditional Store of the entry.
setRepoStatus(tbl, pr, status, err) == [tbl EXCEPT ![pr] = Entry(status, err)]

\* getRepoStatus
getRepoStatus(pr) == repoStatus[pr]

\* A CompareAndSwap that stores without comparing.
CasAlwaysSwaps(pr, old) == TRUE

\* sync.Map.CompareAndSwap(key, old, new): whether the swap takes place.
CasWouldSwap(pr, old) == repoStatus[pr] = old

\* A lockSession whose Lock returns at once.
lockSessionNoWait(pr) == TRUE

\* A lockSession with one mutex for all sessions.
lockSessionShared(pr) == \A q \in DOMAIN sessionMu : ~sessionMu[q]

\* lockSession: LoadOrStore of the session's mutex, then Lock, which returns only
\* when the mutex is free (sync.Mutex hands the lock to any of the waiters).
lockSession(pr) == ~sessionMu[pr]

\* A lockRepo whose Lock returns at once.
lockRepoNoWait(r) == TRUE

\* A lockRepo with one mutex for all repositories.
lockRepoShared(r) == \A q \in DOMAIN repoMu : ~repoMu[q]

\* lockRepo: LoadOrStore of the repository's mutex, then Lock.
lockRepo(r) == ~repoMu[r]

\* created_at of the newest row (rows are inserted with the current time).
LastTs(tbl) == IF tbl = <<>> THEN 0 ELSE tbl[Len(tbl)].ts

\* CreateMessage: INSERT with created_at = datetime('now'), which has a precision
\* of one second; the id is the rowid.  `tick` says whether the clock has moved to
\* a later second since the previous insert (only the order of created_at values
\* is read by the queries, so seconds are counted from the first insert).
CreateMessage(tbl, pr, role, tick) ==
    Append(tbl, [pr |-> pr, role |-> role, ts |-> LastTs(tbl) + (IF tick THEN 1 ELSE 0)])

MsgIds(pr) == {i \in 1..Len(messages) : messages[i].pr = pr}

\* GetLastMessage: ORDER BY created_at DESC LIMIT 1.  Rows that share the
\* greatest created_at are not ordered by the query: any of them may be returned.
\* 0 stands for the error return (no rows).
GetLastMessage(pr) ==
    IF MsgIds(pr) = {} THEN {0}
    ELSE {i \in MsgIds(pr) : \A j \in MsgIds(pr) : messages[j].ts <= messages[i].ts}

RoleOf(i) == IF i = 0 THEN "" ELSE messages[i].role

\* Whether the messages table may take one more row.
Room == Len(messages) < MaxMsgs

\* A step whose storage calls end as d ("ok", or the first or the second call
\* fails): failures are drawn from a budget.
DbStep(d, allowed) ==
    /\ d \in allowed
    /\ d # "ok" => faults < MaxFaults
    /\ faults' = IF d = "ok" THEN faults ELSE faults + 1

DbOutcomes == {"ok", "fail1", "fail2"}

\* Outcomes of one claude.SendMessage call: a reply, or an error (timeout,
\* non-zero exit, failure to start).
ClaudeOutcomes == {"ok", "err"}

\* The first waiter of the given kind leaves the arrival queue.
RECURSIVE Leave(_, _)
Leave(q, kind) ==
    IF q = <<>> THEN q
    ELSE IF Head(q) = kind THEN Tail(q)
    ELSE <<Head(q)>> \o Leave(Tail(q), kind)

\* No page: the step taken was not a page view.
NoPage == [RepoStatus |-> "none", Timeline |-> <<>>, PromptReady |-> FALSE]

\* No argument and no result: no pure function is under study.
NoValue == [fn |-> "none"]

\* A step that renders no page and leaves the revisions and the issues alone.
NoView ==
    /\ page' = NoPage
    /\ UNCHANGED <<revisions, input, output, issueNumber, issues, prStatus,
                   rawReady>>

\* A step of anything but a status poll.
NotPolling ==
    /\ NoView
    /\ lastPoll' = NoReplies
    /\ browser' = browser

\* Whether a status payload carries the continue-polling directive
\* (hx-trigger="every 2s"): the fragments of cloning, pulling and processing do,
\* those of ready and error and the message fragment do not.  The fragment of
\* responded is taken to carry it.
Directive(reply) == reply.Status \in {"cloning", "pulling", "processing", "responded"}

\* A create or retry that answers only when no clone or pull is running.
NavigatingAfterClone(p) ==
    /\ \A r \in DOMAIN repoMu : ~repoMu[r]
    /\ NoView
    /\ lastPoll' = NoReplies
    /\ browser' = IF browser[p] = "none" THEN browser
                  ELSE [browser EXCEPT ![p] = "polling"]

\* An open page after the response to a create (the redirect leads to the page
\* with the polling element) or to a retry (the status fragment of the status
\* just stored).
Navigating(p) ==
    /\ NoView
    /\ lastPoll' = NoReplies
    /\ browser' = IF browser[p] = "none" THEN browser
                  ELSE [browser EXCEPT ![p] = "polling"]

\* An open page after a poll's response: the payload replaces the polling
\* element.
Swapped(p, reply) ==
    IF browser[p] = "none" \/ reply = NoReply THEN browser
    ELSE [browser EXCEPT ![p] = IF Directive(reply) THEN "polling" ELSE "idle"]

\* Status polls being served.
Polls(bag) ==
    LET S == {t \in BagToSet(bag) : t.kind = "poll"}
    IN  BagCardinality([t \in S |-> bag[t]])

\* Mark of a poll that has started and has so far run with no other step
\* between its own.
Started == [Status |-> "started", Error |-> "", msg |-> 0]

\* Whether r is the payload of a poll that has ended.
IsPayload(r) == r.Status \notin {"none", "started"}

\* A step of a status poll for p (first: the step that reads the entry).  The
\* payload of a poll that ran with no other step between its own is remembered
\* when it ends, and kept by the steps of the one poll that follows; the
\* steps of everything else forget it.
Polling(p, first) ==
    /\ NoView
    /\ lastPoll' =
         IF Polls(tasks') > (IF pollReply'[p] # NoReply THEN 0 ELSE 1)
         THEN NoReplies
         ELSE IF pollReply'[p] # NoReply
         THEN (IF first \/ lastPoll[p] # NoReply
               THEN [NoReplies EXCEPT ![p] = pollReply'[p]] ELSE NoReplies)
         ELSE IF lastPoll[p] # NoReply THEN lastPoll
         ELSE IF first THEN [NoReplies EXCEPT ![p] = Started] ELSE NoReplies
    /\ browser' = Swapped(p, pollReply'[p])

\* ------------------------------------------------------------------- Init
\* A freshly constructed Server (empty tables, no goroutine).  The database and
\* the clone cache outlive the process: the prompt request may already exist,
\* and the repository may already be cloned.
NewServer ==
    /\ prRepo \in {f \in [PRs -> Repos \cup {""}] :
                      \A p, q \in PRs : (p < q /\ f[q] # "") => f[p] # ""}
    /\ messages = <<>>
    /\ gitDir \in [Repos -> BOOLEAN]
    /\ repoStatus = [p \in PRs |-> NoEntry]
    /\ sessionMu = [p \in PRs |-> FALSE]
    /\ repoMu = [r \in Repos |-> FALSE]
    /\ tasks = EmptyBag
    /\ waitq = [p \in PRs |-> <<>>]
    /\ calls = EmptyBag
    /\ delivered = EmptyBag
    /\ pollReply = NoReplies
    /\ retries = 0
    /\ faults = 0
    /\ revisions = <<>>
    /\ page = NoPage
    /\ lastPoll = NoReplies

\* No browser page.
NoBrowser == [p \in PRs |-> "none"]

\* No prompt request has an issue.
NoIssues == [p \in PRs |-> 0]

\* No payload says prompt_ready.
NeverReady == [i \in 1..MaxMsgs |-> FALSE]

\* Every prompt request has the status of a new row (DEFAULT 'draft').
Drafts == [p \in PRs |-> "draft"]

Init ==
    /\ NewServer
    /\ input = NoValue
    /\ output = NoValue
    /\ browser = NoBrowser
    /\ issueNumber = NoIssues
    /\ issues = <<>>
    /\ prStatus = Drafts
    /\ rawReady = NeverReady

\* A start status that ignores the completion marker.
StartStatusCloning(cloned) == "cloning"

\* Status a create or a retry stores before it starts the worker.
StartStatus(cloned) == IF cloned THEN "pulling" ELSE "cloning"

\* ------------------------------------------------------------ handleCreate
\* UpsertRepository, CreatePromptRequest (the next free id), repo.IsCloned,
\* setRepoStatus(pulling | cloning), go asyncEnsureCloned, redirect.  The id is
\* known to no other request before the redirect.
handleCreate(p, r) ==
    /\ Navigating(p)
    /\ CanServe
    /\ prRepo[p] = ""
    /\ \A q \in PRs : q < p => prRepo[q] # ""
    /\ prRepo' = [prRepo EXCEPT ![p] = r]
    /\ repoStatus' = setRepoStatus(repoStatus, p, StartStatus(IsCloned(r)), "")
    /\ tasks' = Spawned(tasks, [Task("prov", p, "lock") EXCEPT !.cloned = IsCloned(r)])
    /\ pollReply' = NoReplies
    /\ UNCHANGED <<messages, gitDir, sessionMu, repoMu,
                   waitq, calls, delivered, retries, faults>>

\* ------------------------------------------------------------- handleRetry
\* repo.IsCloned, setRepoStatus(pulling | cloning), go asyncEnsureCloned, render
\* the status.  The handler does not look at the current status.
handleRetry(p) ==
    /\ Navigating(p)
    /\ CanServe
    /\ retries < MaxRetries
    /\ prRepo[p] # ""
    /\ retries' = retries + 1
    /\ repoStatus' = setRepoStatus(repoStatus, p, StartStatus(IsCloned(prRepo[p])), "")
    /\ tasks' = Spawned(tasks, [Task("prov", p, "lock") EXCEPT
                                   !.cloned = IsCloned(prRepo[p])])
    /\ pollReply' = NoReplies
    /\ UNCHANGED <<prRepo, messages, gitDir, sessionMu, repoMu,
                   waitq, calls, delivered, faults>>

\* ------------------------------------------------------- asyncEnsureCloned
\* repo.EnsureCloned: os.Stat(.git) decides between pull and clone.
EnsureClonedOp(r) == IF gitDir[r] THEN "pull" ELSE "clone"

\* lockRepo(repoURL), then EnsureCloned starts its git command.
ProvLock(t) ==
    /\ NotPolling
    /\ t.kind = "prov" /\ t.pc = "lock"
    /\ lockRepo(prRepo[t.pr])
    /\ repoMu' = [repoMu EXCEPT ![prRepo[t.pr]] = TRUE]
    /\ tasks' = Stepped(tasks, t, [t EXCEPT !.pc = "git", !.op = EnsureClonedOp(prRepo[t.pr])])
    /\ pollReply' = NoReplies
    /\ UNCHANGED <<prRepo, messages, gitDir, repoStatus, sessionMu,
                   waitq, calls, delivered, retries, faults>>

\* Results of a git command: "" for success, or the failure text of repo.clone
\* or repo.pull.
GitOutcomes(op) ==
    {""} \cup (IF op = "clone" THEN {"cloning repository"} ELSE {"pulling repository"})

\* The git command ends: a clone that succeeds leaves the .git directory; a
\* failure leaves the filesystem as it was.
ProvGit(t, res) ==
    /\ NotPolling
    /\ t.kind = "prov" /\ t.pc = "git"
    /\ res \in GitOutcomes(t.op)
    /\ gitDir' = IF t.op = "clone" /\ res = ""
                 THEN [gitDir EXCEPT ![prRepo[t.pr]] = TRUE] ELSE gitDir
    /\ tasks' = Stepped(tasks, t, [t EXCEPT !.pc = "set", !.err = res])
    /\ pollReply' = NoReplies
    /\ UNCHANGED <<prRepo, messages, repoStatus, sessionMu, repoMu,
                   waitq, calls, delivered, retries, faults>>

\* Entry the worker stores once EnsureCloned has returned err.
ProvResult(err) == IF err # "" THEN Entry("error", err) ELSE Entry("ready", "")

\* setRepoStatus(error, err.Error()) or setRepoStatus(ready); deferred Unlock.
ProvSet(t) ==
    /\ NotPolling
    /\ t.kind = "prov" /\ t.pc = "set"
    /\ repoStatus' = setRepoStatus(repoStatus, t.pr, ProvResult(t.err).Status,
                                   ProvResult(t.err).Error)
    /\ repoMu' = [repoMu EXCEPT ![prRepo[t.pr]] = FALSE]
    /\ tasks' = Finished(tasks, t)
    /\ pollReply' = NoReplies
    /\ UNCHANGED <<prRepo, messages, gitDir, sessionMu,
                   waitq, calls, delivered, retries, faults>>

\* ------------------------------------------------------- handleSendMessage
\* A branch that stores without calling only while a clone or pull runs.
IsQueuedPathProvisioning(entry) == entry.Status \in {"cloning", "pulling"}

\* The branch taken on the status entry: anything but absent and ready stores
\* the message without calling the subprocess.
IsQueuedPath(entry) == entry.Status # "" /\ entry.Status # "ready"

\* GetPromptRequest, getRepoStatus, and on the direct path the call of
\* lockSession (the goroutine joins the waiters of the session mutex).
StartSend(p) ==
    /\ NotPolling
    /\ CanServe
    /\ prRepo[p] # ""
    /\ tasks' = Spawned(tasks, Task("send", p,
                    IF IsQueuedPath(getRepoStatus(p)) THEN "queue" ELSE "lock"))
    /\ waitq' = IF IsQueuedPath(getRepoStatus(p)) THEN waitq
                ELSE [waitq EXCEPT ![p] = Append(@, "send")]
    /\ pollReply' = NoReplies
    /\ UNCHANGED <<prRepo, messages, gitDir, repoStatus, sessionMu, repoMu,
                   calls, delivered, retries, faults>>

\* Queued path: CreateMessage(user), render the bubble, return.
SendQueue(t, d, tick) ==
    /\ NotPolling
    /\ t.kind = "send" /\ t.pc = "queue"
    /\ DbStep(d, {"ok", "fail1"})
    /\ d = "ok" => Room
    /\ messages' = IF d = "ok" THEN CreateMessage(messages, t.pr, "user", tick)
                   ELSE messages
    /\ tasks' = Finished(tasks, t)
    /\ pollReply' = NoReplies
    /\ UNCHANGED <<prRepo, gitDir, repoStatus, sessionMu, repoMu,
                   waitq, calls, delivered, retries>>

\* Direct path: Lock returns, then ListMessages decides resume; a failed
\* listing returns with the deferred Unlock.
SendLock(t, d) ==
    /\ NotPolling
    /\ t.kind = "send" /\ t.pc = "lock"
    /\ lockSession(t.pr)
    /\ DbStep(d, {"ok", "fail1"})
    /\ waitq' = [waitq EXCEPT ![t.pr] = Leave(@, "send")]
    /\ sessionMu' = [sessionMu EXCEPT ![t.pr] = (d = "ok")]
    /\ tasks' = IF d = "ok"
                THEN Stepped(tasks, t, [t EXCEPT !.pc = "store",
                                                 !.resume = (MsgIds(t.pr) # {})])
                ELSE Finished(tasks, t)
    /\ pollReply' = NoReplies
    /\ UNCHANGED <<prRepo, messages, gitDir, repoStatus, repoMu,
                   calls, delivered, retries>>

\* CreateMessage(user), then claude.SendMessage starts; a failed insert
\* returns with the deferred Unlock.
SendStore(t, d, tick) ==
    /\ NotPolling
    /\ t.kind = "send" /\ t.pc = "store"
    /\ DbStep(d, {"ok", "fail1"})
    /\ d = "ok" => Room
    /\ messages' = IF d = "ok" THEN CreateMessage(messages, t.pr, "user", tick)
                   ELSE messages
    /\ calls' = IF d = "ok"
                THEN calls (+) SetToBag({[msg |-> Len(messages) + 1, resume |-> t.resume]})
                ELSE calls
    /\ sessionMu' = [sessionMu EXCEPT ![t.pr] = (d = "ok")]
    /\ tasks' = IF d = "ok"
                THEN Stepped(tasks, t, [t EXCEPT !.pc = "flight",
                                                 !.msg = Len(messages) + 1])
                ELSE Finished(tasks, t)
    /\ pollReply' = NoReplies
    /\ UNCHANGED <<prRepo, gitDir, repoStatus, repoMu,
                   waitq, delivered, retries>>

\* claude.SendMessage returns res; the reply, or the error text, is stored as
\* an assistant message (a failed insert is logged); deferred Unlock.
SendReturn(t, res, d, tick) ==
    /\ NotPolling
    /\ t.kind = "send" /\ t.pc = "flight"
    /\ res \in ClaudeOutcomes
    /\ DbStep(d, {"ok", "fail1"})
    /\ d = "ok" => Room
    /\ messages' = IF d = "ok" THEN CreateMessage(messages, t.pr, "assistant", tick)
                   ELSE messages
    /\ sessionMu' = [sessionMu EXCEPT ![t.pr] = FALSE]
    /\ tasks' = Finished(tasks, t)
    /\ pollReply' = NoReplies
    /\ UNCHANGED <<prRepo, gitDir, repoStatus, repoMu,
                   waitq, calls, delivered, retries>>

\* -------------------------------------------------------- handleRepoStatus
\* Payload of a status poll: the status fragment (status, error text), or the
\* message fragment ("message") carrying the delivered message.
Reply(status, err, msg) == [Status |-> status, Error |-> err, msg |-> msg]

\* A poll that runs the restart recovery for a cloning entry too.
PollBranchReclones(entry) ==
    CASE entry.Status \in {"", "cloning"} -> "init"
      [] entry.Status = "ready" -> "last"
      [] entry.Status = "responded" -> "consume"
      [] OTHER -> "done"

\* A poll without restart recovery: an absent entry is rendered as it is.
PollBranchNoRecovery(entry) ==
    CASE entry.Status = "ready" -> "last"
      [] entry.Status = "responded" -> "consume"
      [] OTHER -> "done"

\* Where a poll goes after reading the entry.
PollBranch(entry) ==
    CASE entry.Status = "" -> "init"
      [] entry.Status = "ready" -> "last"
      [] entry.Status = "responded" -> "consume"
      [] OTHER -> "done"

\* getRepoStatus; an absent entry reads the completion marker (repo.IsCloned);
\* cloning, pulling, processing and error are rendered as they are.
StartPoll(p) ==
    /\ CanServe
    /\ prRepo[p] # ""
    /\ IF PollBranch(getRepoStatus(p)) = "done"
       THEN /\ pollReply' = [NoReplies EXCEPT
                   ![p] = Reply(getRepoStatus(p).Status, getRepoStatus(p).Error, 0)]
            /\ tasks' = tasks
       ELSE /\ pollReply' = NoReplies
            /\ tasks' = Spawned(tasks,
                   [Task("poll", p, PollBranch(getRepoStatus(p)))
                       EXCEPT !.cloned = (PollBranch(getRepoStatus(p)) = "init"
                                          /\ IsCloned(prRepo[p]))])
    /\ UNCHANGED <<prRepo, messages, gitDir, repoStatus, sessionMu, repoMu,
                   waitq, calls, delivered, retries, faults>>
    /\ Polling(p, TRUE)

\* Restart recovery: setRepoStatus(ready) when the marker was found, otherwise
\* setRepoStatus(cloning), go asyncEnsureCloned, and the poll reports cloning.
PollInit(t) ==
    /\ t.kind = "poll" /\ t.pc = "init"
    /\ repoStatus' = setRepoStatus(repoStatus, t.pr,
                                   IF t.cloned THEN "ready" ELSE "cloning", "")
    /\ tasks' = IF t.cloned
                THEN Stepped(tasks, t, [t EXCEPT !.pc = "last"])
                ELSE Stepped(tasks, t, [Task("prov", t.pr, "lock") EXCEPT !.cloned = t.cloned])
    /\ pollReply' = IF t.cloned THEN NoReplies
                    ELSE [NoReplies EXCEPT ![t.pr] = Reply("cloning", "", 0)]
    /\ UNCHANGED <<prRepo, messages, gitDir, sessionMu, repoMu,
                   waitq, calls, delivered, retries, faults>>
    /\ Polling(t.pr, FALSE)

\* Entry ready: GetLastMessage; a pending user message leads to the CAS,
\* anything else (no row, a failed query, an assistant message) reports ready.
PollLast(t, m, d) ==
    /\ t.kind = "poll" /\ t.pc = "last"
    /\ DbStep(d, {"ok", "fail1"})
    /\ m \in (IF d = "ok" THEN GetLastMessage(t.pr) ELSE {0})
    /\ tasks' = IF RoleOf(m) = "user"
                THEN Stepped(tasks, t, [t EXCEPT !.pc = "cas"])
                ELSE Finished(tasks, t)
    /\ pollReply' = IF RoleOf(m) = "user" THEN NoReplies
                    ELSE [NoReplies EXCEPT ![t.pr] = Reply("ready", "", 0)]
    /\ UNCHANGED <<prRepo, messages, gitDir, repoStatus, sessionMu, repoMu,
                   waitq, calls, delivered, retries>>
    /\ Polling(t.pr, FALSE)

\* CompareAndSwap(id, {ready}, {processing}); the winner starts
\* backgroundSendMessage; winner and losers report processing.
PollCas(t) ==
    /\ t.kind = "poll" /\ t.pc = "cas"
    /\ repoStatus' = IF CasWouldSwap(t.pr, Entry("ready", ""))
                     THEN [repoStatus EXCEPT ![t.pr] = Entry("processing", "")]
                     ELSE repoStatus
    /\ tasks' = IF CasWouldSwap(t.pr, Entry("ready", ""))
                THEN Stepped(tasks, t, [Task("bg", t.pr, "load") EXCEPT
                                            !.seen = Len(messages)])
                ELSE Finished(tasks, t)
    /\ pollReply' = [NoReplies EXCEPT ![t.pr] = Reply("processing", "", 0)]
    /\ UNCHANGED <<prRepo, messages, gitDir, sessionMu, repoMu,
                   waitq, calls, delivered, retries, faults>>
    /\ Polling(t.pr, FALSE)

\* Entry responded: Delete, then GetLastMessage; an assistant message is
\* returned as the message fragment, otherwise the status fragment says
\* responded.
PollConsume(t, m, d) ==
    /\ t.kind = "poll" /\ t.pc = "consume"
    /\ DbStep(d, {"ok", "fail1"})
    /\ m \in (IF d = "ok" THEN GetLastMessage(t.pr) ELSE {0})
    /\ repoStatus' = [repoStatus EXCEPT ![t.pr] = NoEntry]
    /\ delivered' = IF RoleOf(m) = "assistant"
                    THEN delivered (+) SetToBag({m}) ELSE delivered
    /\ pollReply' = [NoReplies EXCEPT ![t.pr] =
                        IF RoleOf(m) = "assistant" THEN Reply("message", "", m)
                        ELSE Reply("responded", "", 0)]
    /\ tasks' = Finished(tasks, t)
    /\ UNCHANGED <<prRepo, messages, gitDir, sessionMu, repoMu,
                   waitq, calls, retries>>
    /\ Polling(t.pr, FALSE)

\* --------------------------------------------------- backgroundSendMessage
\* GetPromptRequest and the first GetLastMessage, then the call of lockSession.
BgLoad(t, m, d) ==
    /\ NotPolling
    /\ t.kind = "bg" /\ t.pc = "load"
    /\ DbStep(d, DbOutcomes)
    /\ m \in (IF d = "ok" THEN GetLastMessage(t.pr) ELSE {0})
    /\ repoStatus' =
         IF d = "fail1"
         THEN setRepoStatus(repoStatus, t.pr, "error", "Failed to load prompt request")
         ELSE IF RoleOf(m) # "user"
         THEN setRepoStatus(repoStatus, t.pr, "ready", "")
         ELSE repoStatus
    /\ tasks' = IF RoleOf(m) = "user"
                THEN Stepped(tasks, t, [t EXCEPT !.pc = "lock", !.msg = m])
                ELSE Finished(tasks, t)
    /\ waitq' = IF RoleOf(m) = "user"
                THEN [waitq EXCEPT ![t.pr] = Append(@, "bg")] ELSE waitq
    /\ pollReply' = NoReplies
    /\ UNCHANGED <<prRepo, messages, gitDir, sessionMu, repoMu,
                   calls, delivered, retries>>

\* resume of the worker: an assistant message older than the pending one.
BgResume(pr, m) == \E i \in MsgIds(pr) : i < m /\ messages[i].role = "assistant"

\* Lock returns; the re-check (GetLastMessage) aborts to ready when the
\* message is answered; ListMessages; then claude.SendMessage starts.
BgLock(t, m, d) ==
    /\ NotPolling
    /\ t.kind = "bg" /\ t.pc = "lock"
    /\ lockSession(t.pr)
    /\ DbStep(d, DbOutcomes)
    /\ m \in (IF d = "fail1" THEN {0} ELSE GetLastMessage(t.pr))
    /\ d = "fail2" => RoleOf(m) = "user"
    /\ waitq' = [waitq EXCEPT ![t.pr] = Leave(@, "bg")]
    /\ IF RoleOf(m) # "user"
       THEN /\ repoStatus' = setRepoStatus(repoStatus, t.pr, "ready", "")
            /\ tasks' = Finished(tasks, t)
            /\ UNCHANGED <<sessionMu, calls>>
       ELSE IF d = "fail2"
       THEN /\ repoStatus' = setRepoStatus(repoStatus, t.pr, "error", "Failed to list messages")
            /\ tasks' = Finished(tasks, t)
            /\ UNCHANGED <<sessionMu, calls>>
       ELSE /\ sessionMu' = [sessionMu EXCEPT ![t.pr] = TRUE]
            /\ calls' = calls (+) SetToBag({[msg |-> m, resume |-> BgResume(t.pr, m)]})
            /\ tasks' = Stepped(tasks, t, [t EXCEPT !.pc = "flight", !.msg = m])
            /\ repoStatus' = repoStatus
    /\ pollReply' = NoReplies
    /\ UNCHANGED <<prRepo, messages, gitDir, repoMu, delivered, retries>>

\* A worker that records a failed subprocess call as an error entry.
BgResultFailureIsError(res, d) ==
    IF res = "err" THEN Entry("error", "claude error")
    ELSE IF d # "ok" THEN Entry("error", "Failed to save response")
    ELSE Entry("responded", "")

\* A worker that returns without a status when the insert of the reply
\* fails: the entry keeps saying processing.
BgResultKeepsProcessing(res, d) ==
    IF res = "ok" /\ d # "ok" THEN Entry("processing", "")
    ELSE Entry("responded", "")

\* Entry the worker stores once the subprocess has returned res and the
\* insert of the assistant message ended as d.
BgResult(res, d) ==
    IF res = "ok" /\ d # "ok" THEN Entry("error", "Failed to save response")
    ELSE Entry("responded", "")

\* claude.SendMessage returns; CreateMessage(assistant); setRepoStatus;
\* deferred Unlock.
BgReturn(t, res, d, tick) ==
    /\ NotPolling
    /\ t.kind = "bg" /\ t.pc = "flight"
    /\ res \in ClaudeOutcomes
    /\ DbStep(d, {"ok", "fail1"})
    /\ d = "ok" => Room
    /\ messages' = IF d = "ok" THEN CreateMessage(messages, t.pr, "assistant", tick)
                   ELSE messages
    /\ repoStatus' = setRepoStatus(repoStatus, t.pr, BgResult(res, d).Status,
                                   BgResult(res, d).Error)
    /\ sessionMu' = [sessionMu EXCEPT ![t.pr] = FALSE]
    /\ tasks' = Finished(tasks, t)
    /\ pollReply' = NoReplies
    /\ UNCHANGED <<prRepo, gitDir, repoMu,
                   waitq, calls, delivered, retries>>

\* ---------------------------------------------------------------- revisions
\* published_at of the newest revision.
LastPublished(tbl) == IF tbl = <<>> THEN 0 ELSE tbl[Len(tbl)].ts

\* CreateRevision: INSERT (prompt_request_id, content, after_message_id) with
\* published_at = datetime('now'); after = 0 stands for a NULL anchor.
CreateRevision(tbl, pr, after, tick) ==
    Append(tbl, [pr |-> pr, after |-> after,
                 ts |-> LastPublished(tbl) + (IF tick THEN 1 ELSE 0)])

\* The orders in which a query may return the rows ids of a table when it
\* sorts them by their ts alone: rows with equal ts come in any order.
Sorted(tbl, ids) ==
    {q \in [1..Cardinality(ids) -> ids] :
        /\ \A i, j \in 1..Cardinality(ids) : i # j => q[i] # q[j]
        /\ \A i, j \in 1..Cardinality(ids) : i < j => tbl[q[i]].ts <= tbl[q[j]].ts}

\* ListMessages: the ids of the conversation's rows, ORDER BY created_at ASC.
ListMessages(pr) == Sorted(messages, MsgIds(pr))

\* ListRevisions: the conversation's rows as [id, after], ORDER BY published_at ASC.
ListRevisions(pr) ==
    {[i \in DOMAIN q |-> [id |-> q[i], after |-> revisions[q[i]].after]] :
        q \in Sorted(revisions, {i \in 1..Len(revisions) : revisions[i].pr = pr})}

\* -------------------------------------------------------------- handleShow
\* timelineItem{Type, Message | Revision}
Item(type, id) == [Type |-> type, id |-> id]

\* Markers of a list of revisions, in the order of the list.
Markers(revs) == [i \in DOMAIN revs |-> Item("revision-marker", revs[i].id)]

\* revByMsg[m]: the revisions whose AfterMessageID is m, in the order of the list.
RevByMsg(revs, m) == SelectSeq(revs, LAMBDA r : r.after = m)

\* The loop over the messages: each message, then the markers found under its id.
RECURSIVE Interleave(_, _)
Interleave(msgs, revs) ==
    IF msgs = <<>> THEN <<>>
    ELSE <<Item("message", Head(msgs))>> \o Markers(RevByMsg(revs, Head(msgs)))
             \o Interleave(Tail(msgs), revs)

\* buildTimeline: revisions with an AfterMessageID go to revByMsg, the others to
\* orphanRevs; the messages are emitted with the markers of revByMsg, then the
\* orphans are appended.
buildTimeline(msgs, revs) ==
    Interleave(msgs, SelectSeq(revs, LAMBDA r : r.after # 0))
        \o Markers(SelectSeq(revs, LAMBDA r : r.after = 0))

\* The status the page shows: the entry's, or ready for an absent entry of a
\* cloned repository.
ShowStatus(entry, cloned) ==
    IF entry.Status = "" /\ cloned THEN "ready" ELSE entry.Status

\* A page view that stores the status it recovered.
ShowTableStores(tbl, pr, cloned) ==
    IF tbl[pr] = NoEntry /\ cloned THEN setRepoStatus(tbl, pr, "ready", "") ELSE tbl

\* The table after a page view: the recovered status is kept in a local of the
\* handler, the table is not written.
ShowTable(tbl, pr, cloned) == tbl

\* The page of a request that failed in storage.
ErrorPage ==
    [RepoStatus |-> "Internal Server Error", Timeline |-> <<>>, PromptReady |-> FALSE]

\* data.PromptReady: the flag of the payload of the last listed message when
\* that message is an assistant's, suppressed when the last listed revision is
\* anchored at that message or a later one.
ShowPromptReady(ms, rs) ==
    /\ ms # <<>>
    /\ RoleOf(ms[Len(ms)]) = "assistant"
    /\ rawReady[ms[Len(ms)]]
    /\ rs # <<>> =>
           ~(rs[Len(rs)].after # 0 /\ ms[Len(ms)] <= rs[Len(rs)].after)

\* GetPromptRequest, ListMessages (ms), ListRevisions (rs), getRepoStatus,
\* repo.IsCloned for an absent entry, buildTimeline, the prompt-ready flag,
\* render; a listing that fails ends the request with the error page.
handleShow(p, ms, rs, d) ==
    /\ CanServe
    /\ prRepo[p] # ""
    /\ DbStep(d, {"ok", "fail1"})
    /\ page' = IF d = "ok"
               THEN [RepoStatus |-> ShowStatus(getRepoStatus(p), IsCloned(prRepo[p])),
                     Timeline |-> buildTimeline(ms, rs),
                     PromptReady |-> ShowPromptReady(ms, rs)]
               ELSE ErrorPage
    /\ repoStatus' = ShowTable(repoStatus, p, IsCloned(prRepo[p]))
    /\ pollReply' = NoReplies
    /\ lastPoll' = NoReplies
    /\ UNCHANGED <<prRepo, messages, gitDir, sessionMu, repoMu, tasks,
                   waitq, calls, delivered, retries, revisions, input, output,
                   browser, issueNumber, issues, prStatus, rawReady>>

\* ------------------------------------------------------------------- Next
Next ==
    \/ \E p \in PRs, r \in Repos : handleCreate(p, r)
    \/ \E p \in PRs : handleRetry(p)
    \/ \E t \in Live : ProvLock(t)
    \/ \E t \in Live, res \in {"", "cloning repository", "pulling repository"} : ProvGit(t, res)
    \/ \E t \in Live : ProvSet(t)
    \/ \E p \in PRs : StartSend(p)
    \/ \E t \in Live, d \in DbOutcomes, tick \in BOOLEAN : SendQueue(t, d, tick)
    \/ \E t \in Live, d \in DbOutcomes : SendLock(t, d)
    \/ \E t \in Live, d \in DbOutcomes, tick \in BOOLEAN : SendStore(t, d, tick)
    \/ \E t \in Live, res \in ClaudeOutcomes, d \in DbOutcomes, tick \in BOOLEAN :
           SendReturn(t, res, d, tick)
    \/ \E p \in PRs : StartPoll(p)
    \/ \E t \in Live : PollInit(t)
    \/ \E t \in Live, m \in 0..MaxMsgs, d \in DbOutcomes : PollLast(t, m, d)
    \/ \E t \in Live : PollCas(t)
    \/ \E t \in Live, m \in 0..MaxMsgs, d \in DbOutcomes : PollConsume(t, m, d)
    \/ \E t \in Live, m \in 0..MaxMsgs, d \in DbOutcomes : BgLoad(t, m, d)
    \/ \E t \in Live, m \in 0..MaxMsgs, d \in DbOutcomes : BgLock(t, m, d)
    \/ \E t \in Live, res \in ClaudeOutcomes, d \in DbOutcomes, tick \in BOOLEAN :
           BgReturn(t, res, d, tick)

Spec == Init /\ [][Next]_vars

\* The server while the subprocess is unavailable: every claude.SendMessage
\* call returns an error (timeout, non-zero exit, failure to start).
FailNext ==
    \/ \E p \in PRs, r \in Repos : handleCreate(p, r)
    \/ \E p \in PRs : handleRetry(p)
    \/ \E t \in Live : ProvLock(t)
    \/ \E t \in Live, res \in {"", "cloning repository", "pulling repository"} : ProvGit(t, res)
    \/ \E t \in Live : ProvSet(t)
    \/ \E p \in PRs : StartSend(p)
    \/ \E t \in Live, d \in DbOutcomes, tick \in BOOLEAN : SendQueue(t, d, tick)
    \/ \E t \in Live, d \in DbOutcomes : SendLock(t, d)
    \/ \E t \in Live, d \in DbOutcomes, tick \in BOOLEAN : SendStore(t, d, tick)
    \/ \E t \in Live, d \in DbOutcomes, tick \in BOOLEAN : SendReturn(t, "err", d, tick)
    \/ \E p \in PRs : StartPoll(p)
    \/ \E t \in Live : PollInit(t)
    \/ \E t \in Live, m \in 0..MaxMsgs, d \in DbOutcomes : PollLast(t, m, d)
    \/ \E t \in Live : PollCas(t)
    \/ \E t \in Live, m \in 0..MaxMsgs, d \in DbOutcomes : PollConsume(t, m, d)
    \/ \E t \in Live, m \in 0..MaxMsgs, d \in DbOutcomes : BgLoad(t, m, d)
    \/ \E t \in Live, m \in 0..MaxMsgs, d \in DbOutcomes : BgLock(t, m, d)
    \/ \E t \in Live, d \in DbOutcomes, tick \in BOOLEAN : BgReturn(t, "err", d, tick)

FailSpec == Init /\ [][FailNext]_vars

\* The server with its page view: the steps of Next whose storage calls
\* succeed, and page views.
NextView ==
    \/ Next /\ faults' = faults
    \/ \E p \in PRs, d \in DbOutcomes :
           \E ms \in ListMessages(p), rs \in ListRevisions(p) : handleShow(p, ms, rs, d)

ViewSpec == Init /\ [][NextView]_vars

\* ----------------------------------------------------------------- claims
\* Number of live goroutines of a bag with the given kind, position and
\* prompt request.
Matching(bag, kind, pc, p) ==
    LET S == {t \in BagToSet(bag) : t.kind = kind /\ t.pc = pc /\ t.pr = p}
    IN  BagCardinality([t \in S |-> bag[t]])

\* Subprocess calls in flight for a session: the goroutines inside
\* claude.SendMessage.
InFlight(bag, p) == Matching(bag, "send", "flight", p) + Matching(bag, "bg", "flight", p)

\* Goroutines between lockSession and the deferred Unlock.
Holders(bag, p) == InFlight(bag, p) + Matching(bag, "send", "store", p)

\* C1: in every reachable state at most one subprocess call is in flight per
\* session, and a call in flight is made by the one goroutine that holds the
\* session's lock.
C1_OneCallPerSession ==
    \A p \in PRs :
        /\ InFlight(tasks, p) <= 1
        /\ Holders(tasks, p) = (IF sessionMu[p] THEN 1 ELSE 0)

\* C1 witness: a manual turn's call is in flight while an auto-dispatch worker
\* waits for the same session's lock.
C1_Witness ==
    \E p \in PRs :
        /\ Matching(tasks, "send", "flight", p) = 1
        /\ Matching(tasks, "bg", "lock", p) = 1

Forwarded(m) ==
    LET S == {c \in BagToSet(calls) : c.msg = m}
    IN  BagCardinality([c \in S |-> calls[c]])

\* C3: as long as no storage call has failed, no stored user message has been
\* passed to the subprocess more than once.
C3_ForwardedOnce ==
    faults = 0 => \A m \in 1..Len(messages) : Forwarded(m) <= 1

\* The stored messages carry pairwise distinct created_at values.
DistinctSeconds ==
    \A i, j \in 1..Len(messages) : i < j => messages[i].ts < messages[j].ts

\* C4: a message is returned by at most one status poll (stated for tables
\* whose rows carry distinct timestamps, where the last message is unambiguous).
C4_DeliveredOnce ==
    DistinctSeconds => \A m \in 1..Len(messages) : CopiesIn(m, delivered) <= 1

\* Roles of the stored messages, in insertion order.
StoredRoles == [i \in 1..Len(messages) |-> messages[i].role]

\* The nominal run has reached its end: one queued user message, forwarded
\* once by the worker and answered; no retry, no storage failure.
NominalRun ==
    /\ StoredRoles = <<"user", "assistant">>
    /\ calls = SetToBag({[msg |-> 1, resume |-> FALSE]})
    /\ retries = 0
    /\ faults = 0

\* C5: at the end of the nominal run, the poll that finds responded deletes
\* the entry and returns the assistant message; the poll that follows finds
\* the entry absent, stores ready (the marker exists), and, reading the last
\* message, starts no worker and reports ready with no error.
C5_NominalRunEnds ==
    [][\A p \in PRs : (NominalRun /\ faults' = 0) =>
        /\ (tasks = SetToBag({Task("poll", p, "consume")}) /\ tasks' = EmptyBag
            /\ repoStatus[p] = Entry("responded", "") /\ delivered = EmptyBag) =>
              /\ repoStatus'[p] = NoEntry
              /\ pollReply'[p] = Reply("message", "", 2)
              /\ delivered' = SetToBag({2})
        /\ (\E t \in Live : tasks = SetToBag({t}) /\ t.kind = "poll" /\ t.pc = "last"
                            /\ CopiesIn(t, tasks') = 0
            /\ repoStatus[p] = Entry("ready", "") /\ delivered = SetToBag({2})) =>
              /\ tasks' = EmptyBag
              /\ repoStatus'[p] = Entry("ready", "")
              /\ pollReply'[p] = Reply("ready", "", 0)
              /\ calls' = calls
      ]_vars

\* C6: when the worker obtains the session lock and the two newest rows, both
\* stored after the swap that started it, are a user message that a manual
\* turn has forwarded and the answer to it, the worker makes no subprocess
\* call, appends no message and sets the status to ready.
C6_WorkerAborts ==
    [][\A t \in Live :
        (/\ t.kind = "bg" /\ t.pc = "lock"
         /\ CopiesIn(t, tasks') < CopiesIn(t, tasks)
         /\ faults' = 0
         /\ Len(messages) >= t.seen + 2
         /\ messages[Len(messages)].role = "assistant"
         /\ messages[Len(messages) - 1].role = "user"
         /\ Forwarded(Len(messages) - 1) = 1) =>
            /\ calls' = calls
            /\ messages' = messages
            /\ repoStatus'[t.pr] = Entry("ready", "")
      ]_vars

\* C7 as stated: the goroutine that obtains the session lock and starts its
\* subprocess call is the one that asked for the lock first among the waiters
\* (stated for runs without storage failure and tables whose rows carry
\* distinct timestamps).
C7_RequestOrder ==
    [][\A p \in PRs :
        (DistinctSeconds /\ faults' = 0
         /\ calls' # calls /\ Len(waitq'[p]) < Len(waitq[p])) =>
            waitq'[p] = Tail(waitq[p])
      ]_vars

\* C7 amended: calls of one session run one after the other in the order in
\* which the turns obtain the session lock: the lock is obtained, and a call
\* started, only when the previous holder has finished its call and released
\* the lock, and the starter then holds the lock.
C7_AcquisitionOrder ==
    [][\A p \in PRs :
        /\ Len(waitq'[p]) < Len(waitq[p]) =>
              ~sessionMu[p] /\ Holders(tasks, p) = 0
        /\ calls' # calls =>
              /\ InFlight(tasks, p) = 0
              /\ InFlight(tasks', p) = 1
              /\ Holders(tasks', p) = 1
              /\ sessionMu'[p]
      ]_vars

\* C7 witness: the worker's call is in flight while a manual turn that asked
\* for the lock waits for it.
C7_Witness ==
    \E p \in PRs :
        /\ waitq[p] = <<"send">>
        /\ Matching(tasks, "bg", "flight", p) = 1

\* Provisioning workers, by position, working on a repository.
Provisioning(bag, pc, r) ==
    LET S == {t \in BagToSet(bag) : t.kind = "prov" /\ t.pc = pc /\ prRepo[t.pr] = r}
    IN  BagCardinality([t \in S |-> bag[t]])

\* C8: per repository at most one clone or pull is in flight, the worker that
\* runs it (or has run it and has yet to store the result) holds the
\* repository's lock, and a worker stores ready only after the clone or pull
\* it ran has returned success.
C8_RepoSerialized ==
    /\ [](\A r \in Repos :
            /\ Provisioning(tasks, "git", r) <= 1
            /\ Provisioning(tasks, "git", r) + Provisioning(tasks, "set", r)
                   = (IF repoMu[r] THEN 1 ELSE 0))
    /\ [][\A t \in Live :
            (t.kind = "prov" /\ CopiesIn(t, tasks') < CopiesIn(t, tasks)
             /\ t.pc = "set" /\ repoStatus'[t.pr].Status = "ready") =>
                 /\ t.op \in {"clone", "pull"}
                 /\ t.err = ""
                 /\ repoMu[prRepo[t.pr]]
         ]_vars

\* C8 witness: a clone is in flight while a second provisioning worker for
\* the same repository waits for the repository's lock.
C8_Witness ==
    \E r \in Repos, t \in Live :
        /\ t.kind = "prov" /\ t.pc = "git" /\ t.op = "clone" /\ prRepo[t.pr] = r
        /\ Provisioning(tasks, "lock", r) = 1

\* C9: a provisioning worker started for a repository that was not cloned runs
\* no pull: when it obtains the lock after another worker has cloned the
\* repository it runs no git operation at all.
C9_LaterWorkersSkip ==
    \A t \in Live :
        (t.kind = "prov" /\ ~t.cloned /\ t.pc \in {"git", "set"}) => t.op # "pull"

\* The transitions of the status entry that C10 lists.
Listed(old, new) ==
    CASE old = "" -> new \in {"cloning", "pulling", "ready"}
      [] old \in {"cloning", "pulling"} -> new \in {"ready", "error"}
      [] old = "error" -> new \in {"cloning", "pulling"}
      [] old = "ready" -> new = "processing"
      [] old = "processing" -> new \in {"responded", "ready"}
      [] old = "responded" -> new = ""
      [] OTHER -> FALSE

\* C10: every change of a status entry is one of the listed transitions.
C10_ListedTransitions ==
    [][\A p \in PRs :
        repoStatus'[p].Status # repoStatus[p].Status =>
            Listed(repoStatus[p].Status, repoStatus'[p].Status)
      ]_vars

\* Provisioning workers of a prompt request, at any position.
ProvWorkers(bag, p) ==
    LET S == {t \in BagToSet(bag) : t.kind = "prov" /\ t.pr = p}
    IN  BagCardinality([t \in S |-> bag[t]])

\* C11: a worker whose clone or pull failed stores error with the failure text
\* of the git operation and leaves the messages alone; while the entry says
\* error only a retry starts a provisioning worker; a poll that reports error
\* starts nothing and changes nothing.
C11_ErrorStaysUntilRetry ==
    [][/\ \A t \in Live :
            (t.kind = "prov" /\ t.pc = "set" /\ t.err # ""
             /\ CopiesIn(t, tasks') < CopiesIn(t, tasks)) =>
                /\ repoStatus'[t.pr] = Entry("error", t.err)
                /\ t.err \in GitOutcomes(t.op)
                /\ messages' = messages
       /\ \A p \in PRs :
            (repoStatus[p].Status = "error"
             /\ ProvWorkers(tasks', p) > ProvWorkers(tasks, p)) =>
                retries' = retries + 1
       /\ \A p \in PRs :
            pollReply'[p].Status = "error" =>
                /\ repoStatus' = repoStatus
                /\ tasks' = tasks
                /\ messages' = messages
      ]_vars

\* C11 witness: a status poll has just reported the failure text of a clone.
C11_Witness ==
    \E p \in PRs :
        /\ pollReply[p] = Reply("error", "cloning repository", 0)
        /\ repoStatus[p] = Entry("error", "cloning repository")
        /\ ProvWorkers(tasks, p) = 0

\* ------------------------------------------------------------- scheduling
\* The Go scheduler runs every runnable goroutine, a git command that was
\* started terminates, and a mutex that is free is handed to a goroutine
\* blocked in Lock: the steps of a provisioning worker are taken when they
\* stay enabled.
FairSpec ==
    /\ Spec
    /\ WF_vars(\E t \in Live : ProvLock(t))
    /\ WF_vars(\E t \in Live, res \in {"", "cloning repository", "pulling repository"} :
                   ProvGit(t, res))
    /\ WF_vars(\E t \in Live : ProvSet(t))

\* C12: a retry made while the entry says error stores pulling when the .git
\* marker exists and cloning otherwise, with an empty error text, and starts
\* exactly one provisioning worker and nothing else; an entry that says
\* cloning or pulling is eventually replaced by ready or error.
C12_RetryRestarts ==
    /\ [][\A p \in PRs :
            (repoStatus[p].Status = "error" /\ retries' = retries + 1) =>
                /\ repoStatus'[p] =
                       Entry(IF gitDir[prRepo[p]] THEN "pulling" ELSE "cloning", "")
                /\ ProvWorkers(tasks', p) = ProvWorkers(tasks, p) + 1
                /\ BagCardinality(tasks') = BagCardinality(tasks) + 1
         ]_vars
    /\ \A p \in PRs :
          (repoStatus[p].Status \in {"cloning", "pulling"})
              ~> (repoStatus[p].Status \in {"ready", "error"})

\* C12 witness: after a failed clone and a retry the entry says cloning again
\* and the new worker is about to take the repository lock.
C12_Witness ==
    \E p \in PRs :
        /\ retries = 1
        /\ repoStatus[p] = Entry("cloning", "")
        /\ ProvWorkers(tasks, p) = 1
        /\ Provisioning(tasks, "lock", prRepo[p]) = 1
        /\ ~gitDir[prRepo[p]]

\* C13: a poll that reads an absent entry reads the completion marker and
\* reports nothing yet; it then stores ready and goes on to the pending-message
\* check when it found the marker, and otherwise stores cloning, starts one
\* provisioning worker and reports cloning; a poll reports error only when the
\* entry it read said error.
C13_AbsentEntryRecovered ==
    [][\A p \in PRs :
        /\ (pollReply'[p] # NoReply /\ tasks' = tasks) =>
              repoStatus[p].Status \in {"cloning", "pulling", "processing", "error"}
        /\ pollReply'[p].Status = "error" => repoStatus[p].Status = "error"
        /\ \A t \in BagToSet(tasks') :
              (t.kind = "poll" /\ t.pr = p /\ t.pc = "init"
               /\ CopiesIn(t, tasks') > CopiesIn(t, tasks)) =>
                  /\ repoStatus[p] = NoEntry
                  /\ t.cloned = gitDir[prRepo[p]]
                  /\ pollReply'[p] = NoReply
        /\ \A t \in Live :
              (t.kind = "poll" /\ t.pr = p /\ t.pc = "init"
               /\ CopiesIn(t, tasks') < CopiesIn(t, tasks)) =>
                  IF t.cloned
                  THEN /\ repoStatus'[p] = Entry("ready", "")
                       /\ Matching(tasks', "poll", "last", p) =
                              Matching(tasks, "poll", "last", p) + 1
                       /\ ProvWorkers(tasks', p) = ProvWorkers(tasks, p)
                       /\ pollReply'[p] = NoReply
                  ELSE /\ repoStatus'[p] = Entry("cloning", "")
                       /\ ProvWorkers(tasks', p) = ProvWorkers(tasks, p) + 1
                       /\ pollReply'[p] = Reply("cloning", "", 0)
      ]_vars

\* C13 witness: a poll that found no entry but found the marker has stored
\* ready and is about to look for a pending message.
C13_Witness ==
    \E p \in PRs, t \in Live :
        /\ t.kind = "poll" /\ t.pr = p /\ t.pc = "last" /\ t.cloned
        /\ repoStatus[p] = Entry("ready", "")
        /\ pollReply[p] = NoReply

\* C14: a manual turn whose conversation has no status entry starts its
\* subprocess call only when the repository's completion marker exists.
C14_NoCallWithoutMarker ==
    [][\A t \in Live :
        (t.kind = "send" /\ t.pc = "store"
         /\ CopiesIn(t, tasks') < CopiesIn(t, tasks)
         /\ calls' # calls
         /\ repoStatus[t.pr] = NoEntry) =>
            gitDir[prRepo[t.pr]]
      ]_vars

\* Goroutines of a bag that are not status polls.
Workers(bag) == BagCardinality(bag) - Polls(bag)

\* The second of two consecutive polls leaves the tables alone and starts
\* nothing.
SecondPollReadsOnly ==
    /\ repoStatus' = repoStatus
    /\ messages' = messages
    /\ revisions' = revisions
    /\ Workers(tasks') = Workers(tasks)

PollStep ==
    \/ Polls(tasks') > Polls(tasks)
    \/ pollReply' # NoReplies
    \/ \E t \in Live : t.kind = "poll" /\ CopiesIn(t, tasks') < CopiesIn(t, tasks)

\* C15 as stated: a page view and a step of a status poll leave the status
\* table, the messages and the revisions as they are.
C15_ReadPaths ==
    [][(page' # NoPage \/ PollStep) =>
          /\ repoStatus' = repoStatus
          /\ messages' = messages
          /\ revisions' = revisions
      ]_vars

\* C15 amended: a page view leaves the status table, the messages and the
\* revisions as they are and starts nothing; a step of a status poll leaves
\* the messages and the revisions as they are.
C15_PageViewReadsOnly ==
    [][/\ page' # NoPage =>
            /\ repoStatus' = repoStatus
            /\ messages' = messages
            /\ revisions' = revisions
            /\ tasks' = tasks
       /\ PollStep =>
            /\ messages' = messages
            /\ revisions' = revisions
      ]_vars

\* C15 witness: a page view has shown ready for a conversation of a cloned
\* repository whose status entry is absent, and the entry is still absent.
C15_Witness ==
    \E p \in PRs :
        /\ page # NoPage
        /\ page.RepoStatus = "ready"
        /\ repoStatus[p] = NoEntry
        /\ gitDir[prRepo[p]]
        /\ Len(page.Timeline) = 2

\* ------------------------------------------------------------ handlePublish
\* Conversations of the publishing model.
Convs == {1, 2}

\* A server with no status entries serving the conversations of Convs, whose
\* prompt requests exist and whose repository is cloned.
PubInit ==
    /\ prRepo = [c \in Convs |-> "r1"]
    /\ messages = <<>>
    /\ gitDir = [r \in Repos |-> TRUE]
    /\ repoStatus = [c \in Convs |-> NoEntry]
    /\ sessionMu = [c \in Convs |-> FALSE]
    /\ repoMu = [r \in Repos |-> FALSE]
    /\ tasks = EmptyBag
    /\ waitq = [c \in Convs |-> <<>>]
    /\ calls = EmptyBag
    /\ delivered = EmptyBag
    /\ pollReply = NoReplies
    /\ retries = 0
    /\ faults = 0
    /\ revisions = <<>>
    /\ page = NoPage
    /\ lastPoll = NoReplies
    /\ input = NoValue
    /\ output = NoValue
    /\ browser = [c \in Convs |-> "none"]
    /\ issueNumber = [c \in Convs |-> 0]
    /\ issues = <<>>
    /\ prStatus = [c \in Convs |-> "draft"]
    /\ rawReady = NeverReady

\* Whether GetLatestGeneratedContent may find a generated prompt: the
\* conversation holds an assistant message.
HasGenerated(c) == \E i \in MsgIds(c) : messages[i].role = "assistant"

\* The anchor handlePublish passes to CreateRevision: the id GetLastMessage
\* returned, nil (0) when the query failed.
Anchor(m) == m

\* Outcomes of one GitHub call (gh issue create, gh issue edit).
GhOutcomes == {"ok", "err"}

\* Outcomes of the storage calls that follow the GitHub call: all succeed, or
\* UpdatePromptRequestIssue, GetLastMessage or CreateRevision fails.
PublishOutcomes == {"ok", "fail0", "fail1", "fail2"}

\* A publish that stores no revision.
PublishRevisionSkipped(revs, c, after, tick) == revs

\* The revision one publish stores.
PublishRevision(revs, c, after, tick) == CreateRevision(revs, c, after, tick)

\* handlePublish up to the GitHub call: GetPromptRequest and
\* GetLatestGeneratedContent.  The request keeps the row it read: op is what
\* pr.IssueNumber selects and seen is the number read.
PublishStart(c) ==
    /\ CanServe
    /\ prRepo[c] # ""
    /\ HasGenerated(c)
    /\ Len(revisions) < MaxRevs
    /\ tasks' = Spawned(tasks,
                   [Task("publish", c, "github") EXCEPT
                        !.op = IF issueNumber[c] = 0 THEN "create" ELSE "edit",
                        !.seen = issueNumber[c]])
    /\ pollReply' = NoReplies
    /\ NotPolling
    /\ UNCHANGED <<prRepo, messages, gitDir, repoStatus, sessionMu, repoMu,
                   waitq, calls, delivered, retries, faults>>

\* github.EditIssue of the number read, or github.CreateIssue: the tracker
\* numbers the new issue.  A failed call ends the request before anything is
\* stored.
PublishIssue(t, res) ==
    /\ t.kind = "publish"
    /\ t.pc = "github"
    /\ IF res = "err"
       THEN /\ tasks' = Finished(tasks, t)
            /\ issues' = issues
       ELSE IF t.op = "create"
       THEN /\ issues' = Append(issues, t.pr)
            /\ tasks' = Stepped(tasks, t,
                           [t EXCEPT !.pc = "store", !.seen = Len(issues) + 1])
       ELSE /\ issues' = issues
            /\ tasks' = Stepped(tasks, t, [t EXCEPT !.pc = "store"])
    /\ pollReply' = NoReplies
    /\ lastPoll' = NoReplies
    /\ page' = NoPage
    /\ UNCHANGED <<prRepo, messages, gitDir, repoStatus, sessionMu, repoMu,
                   waitq, calls, delivered, retries, faults, revisions, input,
                   output, browser, issueNumber, prStatus, rawReady>>

\* The rest of handlePublish: UpdatePromptRequestIssue after a create (a failed
\* update is logged), GetLastMessage, CreateRevision (a failed insert is
\* logged), UpdatePromptRequestStatus(published), redirect.
PublishStore(t, m, d, tick) ==
    /\ t.kind = "publish"
    /\ t.pc = "store"
    /\ DbStep(d, PublishOutcomes)
    /\ d = "fail0" => t.op = "create"
    /\ issueNumber' = IF t.op = "create" /\ d # "fail0"
                      THEN [issueNumber EXCEPT ![t.pr] = t.seen]
                      ELSE issueNumber
    /\ m \in (IF d = "fail1" THEN {0} ELSE GetLastMessage(t.pr))
    /\ revisions' = IF d = "fail2" THEN revisions
                    ELSE PublishRevision(revisions, t.pr, Anchor(m), tick)
    /\ prStatus' = [prStatus EXCEPT ![t.pr] = "published"]
    /\ tasks' = Finished(tasks, t)
    /\ pollReply' = NoReplies
    /\ lastPoll' = NoReplies
    /\ page' = NoPage
    /\ UNCHANGED <<prRepo, messages, gitDir, repoStatus, sessionMu, repoMu,
                   waitq, calls, delivered, retries, input, output, browser,
                   issues, rawReady>>

\* ------------------------------------------------------------- handleDelete
\* DeletePromptRequest is UpdatePromptRequestStatus(id, "deleted"): the row,
\* its messages and its revisions stay.  A failed update is answered with the
\* error page.
handleDelete(p, d) ==
    /\ CanServe
    /\ prRepo[p] # ""
    /\ DbStep(d, {"ok", "fail1"})
    /\ prStatus' = IF d = "ok" THEN [prStatus EXCEPT ![p] = "deleted"] ELSE prStatus
    /\ pollReply' = NoReplies
    /\ lastPoll' = NoReplies
    /\ page' = NoPage
    /\ UNCHANGED <<prRepo, messages, gitDir, repoStatus, sessionMu, repoMu, tasks,
                   waitq, calls, delivered, retries, revisions, input, output,
                   browser, issueNumber, issues, rawReady>>

\* Manual turns and publishes of the conversations.
PubNext ==
    \/ \E c \in Convs : StartSend(c)
    \/ \E t \in Live, d \in DbOutcomes : SendLock(t, d)
    \/ \E t \in Live, d \in DbOutcomes, tick \in BOOLEAN : SendStore(t, d, tick)
    \/ \E t \in Live, res \in ClaudeOutcomes, d \in DbOutcomes, tick \in BOOLEAN :
           SendReturn(t, res, d, tick)
    \/ \E c \in Convs : PublishStart(c)
    \/ \E t \in Live, res \in GhOutcomes : PublishIssue(t, res)
    \/ \E t \in Live, m \in 0..MaxMsgs, d \in PublishOutcomes, tick \in BOOLEAN :
           PublishStore(t, m, d, tick)

PubSpec == PubInit /\ [][PubNext]_vars

\* The clock moves to a later second between two inserts of a table.
Ticking ==
    /\ Len(messages') > Len(messages) =>
           messages'[Len(messages')].ts > LastTs(messages)
    /\ Len(revisions') > Len(revisions) =>
           revisions'[Len(revisions')].ts > LastPublished(revisions)

\* The server with every operation on the durable tables: the steps of Next
\* whose storage calls succeed, page views, deletes, and publishes that are
\* requested one at a time, under a clock that ticks between inserts.
DataNext ==
    \/ Next /\ faults' = faults /\ Ticking
    \/ \E p \in PRs, d \in DbOutcomes :
           \E ms \in ListMessages(p), rs \in ListRevisions(p) : handleShow(p, ms, rs, d)
    \/ \E p \in PRs : PublishStart(p) /\ \A t \in Live : t.kind # "publish"
    \/ \E t \in Live, res \in GhOutcomes : PublishIssue(t, res)
    \/ \E t \in Live, m \in 0..MaxMsgs, d \in PublishOutcomes, tick \in BOOLEAN :
           PublishStore(t, m, d, tick) /\ Ticking
    \/ \E p \in PRs, d \in DbOutcomes : handleDelete(p, d)

DataSpec == Init /\ [][DataNext]_vars

\* A server whose prompt requests exist and whose repository is cloned; the
\* subprocess may answer any turn with a payload that says prompt_ready.
ReadyInit ==
    /\ NewServer
    /\ prRepo = [p \in PRs |-> "r1"]
    /\ gitDir = [r \in Repos |-> TRUE]
    /\ input = NoValue
    /\ output = NoValue
    /\ browser = NoBrowser
    /\ issueNumber = NoIssues
    /\ issues = <<>>
    /\ prStatus = Drafts
    /\ rawReady \in [1..MaxMsgs -> BOOLEAN]

\* Manual turns that the subprocess answers with a payload, publishes that
\* are requested one at a time, and page views.
ReadyNext ==
    \/ \E p \in PRs : StartSend(p)
    \/ \E t \in Live, d \in DbOutcomes : SendLock(t, d)
    \/ \E t \in Live, d \in DbOutcomes, tick \in BOOLEAN : SendStore(t, d, tick)
    \/ \E t \in Live, d \in DbOutcomes, tick \in BOOLEAN :
           SendReturn(t, "ok", d, tick)
    \/ \E p \in PRs : PublishStart(p) /\ \A t \in Live : t.kind # "publish"
    \/ \E t \in Live, res \in GhOutcomes : PublishIssue(t, res)
    \/ \E t \in Live, m \in 0..MaxMsgs, d \in PublishOutcomes, tick \in BOOLEAN :
           PublishStore(t, m, d, tick)
    \/ \E p \in PRs, d \in DbOutcomes :
           \E ms \in ListMessages(p), rs \in ListRevisions(p) : handleShow(p, ms, rs, d)

ReadySpec == ReadyInit /\ [][ReadyNext]_vars

\* ---------------------------------------------------------- pure functions
\* Sequences of at most n elements of S.
SeqUpTo(S, n) == UNION {[1..k -> S] : k \in 0..n}

\* Arguments of buildTimeline: a list of messages (distinct ids, one more id
\* than the list can hold, so that an id may be missing from it) and a list of
\* revisions in publish order, each with an anchor (0 for nil).
TimelineInputs ==
    {[fn |-> "buildTimeline", msgs |-> ms, revs |-> rs] :
        ms \in {q \in SeqUpTo(1..(MaxListed + 1), MaxListed) :
                   \A i, j \in DOMAIN q : i # j => q[i] # q[j]},
        rs \in {[i \in DOMAIN q |-> [id |-> i, after |-> q[i]]] :
                   q \in SeqUpTo(0..(MaxListed + 1), MaxRevs)}}

\* Raw outputs of a subprocess that exited with status 0, by what the decoders
\* make of them.  wrapper: the text decodes into the envelope struct;
\* structured_output: the envelope's field is absent ("nil") or a Response whose
\* message is empty or not; result: the envelope's string is empty, JSON of a
\* Response (with or without a message) or text that is not such JSON; direct:
\* the text decodes into Response; message: the top-level "message" so decoded.
RawOutputs ==
    {r \in [fn : {"parseResponse"}, wrapper : BOOLEAN,
            structured_output : {"nil", "empty", "full"},
            result : {"", "json", "json-empty", "text"},
            direct : BOOLEAN, message : {"", "text"}] :
        /\ ~r.wrapper => (r.structured_output = "nil" /\ r.result = "")
        /\ ~r.direct => r.message = ""}

\* A Response, by where its message text comes from: "" is the empty string,
\* "raw" the entire raw output, "result" the envelope's result string.
Response(text) == [Message |-> text]

\* parseResponse; err is the error it returns.
parseResponse(raw) ==
    IF raw.wrapper /\ raw.structured_output # "nil"
    THEN [resp |-> Response(IF raw.structured_output = "full"
                            THEN "structured_output.message" ELSE ""),
          err |-> FALSE]
    ELSE IF raw.wrapper /\ raw.result # ""
    THEN [resp |-> Response(CASE raw.result = "json" -> "result.message"
                              [] raw.result = "json-empty" -> ""
                              [] OTHER -> "result"),
          err |-> FALSE]
    ELSE IF ~raw.direct
    THEN [resp |-> Response(""), err |-> TRUE]
    ELSE [resp |-> Response(IF raw.message = "" THEN "" ELSE "message"),
          err |-> FALSE]

\* The end of claude.SendMessage after the subprocess exited with status 0:
\* the parsed response, or the raw output as message when parsing failed; no
\* error either way.
SendMessage(raw) ==
    LET parsed == parseResponse(raw)
    IN  [resp |-> IF parsed.err THEN Response("raw") ELSE parsed.resp,
         err |-> FALSE]

\* ------------------------------------------------- extractQuestionsFromRaw
\* Longest questions array of a stored payload.
MaxQuestions == 2

\* Items of a "questions" array (header, text, multiSelect, options).
QuestionItems ==
    {[header |-> "scope", text |-> "which scope?", multiSelect |-> TRUE,
      options |-> <<"api", "ui">>],
     [header |-> "", text |-> "which test?", multiSelect |-> FALSE,
      options |-> <<"unit">>]}

\* No "question" key in an object.
NoQuestion == [text |-> "", options |-> <<>>, present |-> FALSE]

\* Values of the legacy "question" key (text, options).
LegacyQuestions ==
    {NoQuestion, [text |-> "which file?", options |-> <<"ui", "api">>, present |-> TRUE]}

\* The structured objects the subprocess has produced under either schema: the
\* keys message, questions (absent and empty are both <<>>), question and
\* prompt_ready.
Payloads ==
    [message : {"", "text"}, questions : SeqUpTo(QuestionItems, MaxQuestions),
     question : LegacyQuestions, prompt_ready : BOOLEAN]

\* Stored raw responses: the object in the envelope's structured_output, as a
\* JSON string in the envelope's result, or bare; or text that is not JSON.
StoredRaws ==
    {[fn |-> "extractQuestionsFromRaw", form |-> f, obj |-> o] :
        f \in {"structured_output", "result", "bare"}, o \in Payloads}
    \cup {[fn |-> "extractQuestionsFromRaw", form |-> "text",
           obj |-> [message |-> "", questions |-> <<>>, question |-> NoQuestion,
                    prompt_ready |-> FALSE]]}

\* The nil *claude.Response.
NilResponse == [nil |-> TRUE, Message |-> "", Questions |-> <<>>, PromptReady |-> FALSE]

\* json.Unmarshal of an object into claude.Response: message, questions and
\* prompt_ready are bound; a "question" key is unknown to the struct and skipped.
DecodeResponse(obj) ==
    [nil |-> FALSE, Message |-> obj.message,
     Questions |-> [i \in DOMAIN obj.questions |->
                      [Header |-> obj.questions[i].header,
                       Text |-> obj.questions[i].text,
                       MultiSelect |-> obj.questions[i].multiSelect,
                       Options |-> obj.questions[i].options]],
     PromptReady |-> obj.prompt_ready]

\* parseRawResponse: structured_output, else the result string decoded, else
\* the direct parse, accepted with a non-empty Message; otherwise nil.
parseRawResponse(raw) ==
    CASE raw.form = "structured_output" -> DecodeResponse(raw.obj)
      [] raw.form = "result" -> DecodeResponse(raw.obj)
      [] raw.form = "bare" ->
            IF DecodeResponse(raw.obj).Message # "" THEN DecodeResponse(raw.obj)
            ELSE NilResponse
      [] OTHER -> NilResponse

\* questionData{Header, Text, MultiSelect, Options, Index}
questionData(header, text, multi, options, index) ==
    [Header |-> header, Text |-> text, MultiSelect |-> multi,
     Options |-> options, Index |-> index]

\* extractLegacyQuestion: the raw text is decoded into a struct that binds
\* structured_output.question only; nil unless that path is present.
extractLegacyQuestion(raw) ==
    IF raw.form = "structured_output" /\ raw.obj.question.present
    THEN <<questionData("", raw.obj.question.text, FALSE, raw.obj.question.options, 0)>>
    ELSE <<>>

\* An extraction that adds the legacy question to a non-empty questions array.
extractQuestionsMergesLegacy(raw) ==
    LET resp == parseRawResponse(raw)
    IN  IF resp.nil THEN [questions |-> <<>>, ready |-> FALSE]
        ELSE [questions |->
                [i \in DOMAIN resp.Questions |->
                    questionData(resp.Questions[i].Header, resp.Questions[i].Text,
                                 resp.Questions[i].MultiSelect,
                                 resp.Questions[i].Options, i - 1)]
                \o extractLegacyQuestion(raw),
              ready |-> resp.PromptReady]

\* An extraction that numbers the questions from 1.
extractQuestionsFromOne(raw) ==
    LET resp == parseRawResponse(raw)
    IN  IF resp.nil THEN [questions |-> <<>>, ready |-> FALSE]
        ELSE IF Len(resp.Questions) = 0
        THEN [questions |-> extractLegacyQuestion(raw), ready |-> resp.PromptReady]
        ELSE [questions |->
                [i \in DOMAIN resp.Questions |->
                    questionData(resp.Questions[i].Header, resp.Questions[i].Text,
                                 resp.Questions[i].MultiSelect,
                                 resp.Questions[i].Options, i)],
              ready |-> resp.PromptReady]

\* extractQuestionsFromRaw: (nil, false) for a nil response; the legacy
\* question when the response has no questions; otherwise one questionData per
\* question with Index i (from 0); PromptReady is the response's.
extractQuestionsFromRaw(raw) ==
    LET resp == parseRawResponse(raw)
    IN  IF resp.nil THEN [questions |-> <<>>, ready |-> FALSE]
        ELSE IF Len(resp.Questions) = 0
        THEN [questions |-> extractLegacyQuestion(raw), ready |-> resp.PromptReady]
        ELSE [questions |->
                [i \in DOMAIN resp.Questions |->
                    questionData(resp.Questions[i].Header, resp.Questions[i].Text,
                                 resp.Questions[i].MultiSelect,
                                 resp.Questions[i].Options, i - 1)],
              ready |-> resp.PromptReady]

PureInit ==
    /\ NewServer
    /\ input \in TimelineInputs \cup RawOutputs \cup StoredRaws
    /\ browser = NoBrowser
    /\ issueNumber = NoIssues
    /\ issues = <<>>
    /\ prStatus = Drafts
    /\ rawReady = NeverReady
    /\ output = NoValue

\* handleShow's call buildTimeline(messages, revisions).
ApplyBuildTimeline ==
    /\ input.fn = "buildTimeline"
    /\ output = NoValue
    /\ output' = [fn |-> "buildTimeline",
                  value |-> buildTimeline(input.msgs, input.revs)]
    /\ UNCHANGED <<prRepo, messages, gitDir, repoStatus, sessionMu, repoMu, tasks,
                   waitq, calls, delivered, pollReply, retries, faults,
                   revisions, page, lastPoll, input, browser, issueNumber, issues,
                   prStatus, rawReady>>

\* A caller's claude.SendMessage returning for a subprocess that exited with
\* status 0.
ApplySendMessage ==
    /\ input.fn = "parseResponse"
    /\ output = NoValue
    /\ output' = [fn |-> "SendMessage", value |-> SendMessage(input)]
    /\ UNCHANGED <<prRepo, messages, gitDir, repoStatus, sessionMu, repoMu, tasks,
                   waitq, calls, delivered, pollReply, retries, faults,
                   revisions, page, lastPoll, input, browser, issueNumber, issues,
                   prStatus, rawReady>>

\* A page render's call extractQuestionsFromRaw(*lastMsg.RawResponse).
ApplyExtractQuestions ==
    /\ input.fn = "extractQuestionsFromRaw"
    /\ output = NoValue
    /\ output' = [fn |-> "extractQuestionsFromRaw",
                  value |-> extractQuestionsFromRaw(input)]
    /\ UNCHANGED <<prRepo, messages, gitDir, repoStatus, sessionMu, repoMu, tasks,
                   waitq, calls, delivered, pollReply, retries, faults,
                   revisions, page, lastPoll, input, browser, issueNumber, issues,
                   prStatus, rawReady>>

\* The Response that claude.SendMessage returns for an output of the shapes of
\* StoredRaws: parseResponse takes structured_output, else the decoded result
\* string, else the direct decode of the whole output, whatever its message;
\* for text that is no JSON the raw output becomes the message.
SendMessageResponse(raw) ==
    IF raw.form \in {"structured_output", "result", "bare"}
    THEN DecodeResponse(raw.obj)
    ELSE [nil |-> FALSE, Message |-> "raw", Questions |-> <<>>, PromptReady |-> FALSE]

\* The end of handleSendMessage: fragment.Questions holds one questionData per
\* question of the live response with Index i (from 0), fragment.PromptReady
\* is the response's.
messageFragmentData(resp) ==
    [questions |->
        [i \in DOMAIN resp.Questions |->
            questionData(resp.Questions[i].Header, resp.Questions[i].Text,
                         resp.Questions[i].MultiSelect,
                         resp.Questions[i].Options, i - 1)],
     ready |-> resp.PromptReady]

\* handleSendMessage renders the turn whose subprocess printed the output.
ApplyRenderTurn ==
    /\ input.fn = "extractQuestionsFromRaw"
    /\ output = NoValue
    /\ output' = [fn |-> "handleSendMessage",
                  value |-> messageFragmentData(SendMessageResponse(input))]
    /\ UNCHANGED <<prRepo, messages, gitDir, repoStatus, sessionMu, repoMu, tasks,
                   waitq, calls, delivered, pollReply, retries, faults,
                   revisions, page, lastPoll, input, browser, issueNumber, issues,
                   prStatus, rawReady>>

PureNext ==
    \/ ApplyBuildTimeline
    \/ ApplySendMessage
    \/ ApplyExtractQuestions
    \/ ApplyRenderTurn

PureSpec == PureInit /\ [][PureNext]_vars

\* Ids of the messages of a list.
Listed17(msgs) == {msgs[i] : i \in DOMAIN msgs}

\* The timeline C17 describes: each message in input order, followed by the
\* revisions anchored to it in publish order; then every revision whose anchor
\* is nil or the id of no listed message, in publish order.
RECURSIVE Anchored17(_, _)
Anchored17(msgs, revs) ==
    IF msgs = <<>> THEN <<>>
    ELSE <<Item("message", Head(msgs))>>
            \o Markers(SelectSeq(revs, LAMBDA r : r.after = Head(msgs)))
            \o Anchored17(Tail(msgs), revs)

\* C17: buildTimeline returns the messages in input order, each followed by the
\* revisions anchored to it, and after the last message every revision whose
\* anchor is nil or matches no listed message, so that every revision appears
\* exactly once.
C17_TimelinePlacesAll ==
    output.fn = "buildTimeline" =>
        output.value =
            Anchored17(input.msgs, input.revs)
              \o Markers(SelectSeq(input.revs,
                                   LAMBDA r : r.after \notin Listed17(input.msgs)))

\* The newest message of a conversation: the greatest id (ids are rowids, which
\* grow with every insert); 0 when it has none.
Newest(c) ==
    IF MsgIds(c) = {} THEN 0
    ELSE CHOOSE i \in MsgIds(c) : \A j \in MsgIds(c) : j <= i

\* C18: the anchor of every stored revision is nil or the id of a message of
\* the revision's conversation, and a publish stores as anchor nil or the id of
\* the conversation's newest message.
C18_AnchorInConversation ==
    /\ [](\A i \in 1..Len(revisions) :
            \/ revisions[i].after = 0
            \/ /\ revisions[i].after \in 1..Len(messages)
               /\ messages[revisions[i].after].pr = revisions[i].pr)
    /\ [][Len(revisions') > Len(revisions) =>
            LET r == revisions'[Len(revisions')]
            IN  r.after = 0 \/ r.after = Newest(r.pr)
         ]_vars

\* The response C19 describes for a raw output: the first step of the fallback
\* chain that succeeds.
Fallback19(raw) ==
    IF raw.wrapper /\ raw.structured_output # "nil"
    THEN Response(IF raw.structured_output = "full"
                  THEN "structured_output.message" ELSE "")
    ELSE IF raw.wrapper /\ raw.result \in {"json", "json-empty"}
    THEN Response(IF raw.result = "json" THEN "result.message" ELSE "")
    ELSE IF raw.direct /\ raw.message # ""
    THEN Response("message")
    ELSE Response("raw")

\* C19: for every raw output of a successful invocation the live parse returns
\* the result of the first applicable step (structured field, decoded result
\* string, direct decode with a non-empty message, the raw text as message) and
\* never an error.
C19_ParseFallback ==
    output.fn = "SendMessage" =>
        /\ ~output.value.err
        /\ output.value.resp = Fallback19(input)

\* What C20 says of the step in which the failed call of task t returns:
\* exactly one assistant message is appended behind the user message that was
\* sent, the session lock is released, a manual turn leaves the status entry as
\* it was and an auto-dispatch worker stores responded.
Answered20(t) ==
    /\ Len(messages') = Len(messages) + 1
    /\ SubSeq(messages', 1, Len(messages)) = messages
    /\ messages'[Len(messages')].role = "assistant"
    /\ messages'[Len(messages')].pr = t.pr
    /\ t.msg \in MsgIds(t.pr)
    /\ messages[t.msg].role = "user"
    /\ ~sessionMu'[t.pr]
    /\ t.kind = "send" => repoStatus' = repoStatus
    /\ t.kind = "bg" => repoStatus'[t.pr] = Entry("responded", "")

Extracted == output.fn = "extractQuestionsFromRaw"

\* The envelope forms that carry a structured object.
Carriers == {"structured_output", "result", "bare"}

\* C21: for a payload with the legacy singular question and no questions array,
\* in any of the three envelope forms, the extraction yields exactly one
\* question: Index 0, the legacy text and the legacy options in order.
C21_LegacyQuestionExtracted ==
    (/\ Extracted
     /\ input.form \in Carriers
     /\ input.obj.questions = <<>>
     /\ input.obj.question.present) =>
        output.value.questions =
            <<questionData("", input.obj.question.text, FALSE,
                           input.obj.question.options, 0)>>

\* The questions array of a payload as the extraction should return it: item i
\* (counted from 0) keeps header, text, multi-select flag and options, Index i.
Normalized22(qs) ==
    [i \in DOMAIN qs |->
        questionData(qs[i].header, qs[i].text, qs[i].multiSelect, qs[i].options, i - 1)]

\* A raw text the fallback chain decodes into the payload it carries: the
\* object in either envelope field, or bare with a non-empty message.
Decodable22 ==
    /\ input.form \in Carriers
    /\ input.form = "bare" => input.obj.message # ""

\* C22: for a raw payload whose questions array has length N, the extraction
\* yields N questions in the same order, each with its header, text,
\* multi-select flag and options and with Index equal to its position; for
\* N = 0 and no legacy question the result is empty.
C22_QuestionsArrayExtracted ==
    (/\ Extracted
     /\ Decodable22
     /\ (input.obj.questions # <<>> \/ ~input.obj.question.present)) =>
        output.value.questions = Normalized22(input.obj.questions)

\* A payload with two questions in the result string was extracted.
C22_Witness ==
    /\ Extracted
    /\ input.form = "result"
    /\ Len(input.obj.questions) = MaxQuestions
    /\ input.obj.questions[1] # input.obj.questions[2]
    /\ Len(output.value.questions) = MaxQuestions

\* The raw response that carries the same object in the other envelope field.
Moved23(raw, form) == [raw EXCEPT !.form = form]

\* C23: the extraction returns the same questions and prompt-ready flag for
\* an object in structured_output as for the object JSON-encoded into result.
C23_EnvelopeRoundTrip ==
    (Extracted /\ input.form \in {"structured_output", "result"}) =>
        /\ output.value = extractQuestionsFromRaw(Moved23(input, "structured_output"))
        /\ output.value = extractQuestionsFromRaw(Moved23(input, "result"))

\* C24: the prompt-ready flag returned is the one the primary decode read
\* from the payload, whether or not the legacy decode runs and whatever it
\* finds; a non-empty questions array is returned as it is, never replaced or
\* extended by a legacy question.
C24_PrimaryFieldsKept ==
    (Extracted /\ Decodable22) =>
        /\ output.value.ready = input.obj.prompt_ready
        /\ input.obj.questions # <<>> =>
              output.value.questions = Normalized22(input.obj.questions)

\* A payload with a questions array, a legacy question and the prompt-ready
\* flag set was extracted from structured_output, where the legacy decode
\* would find the legacy question.
C24_Witness ==
    /\ Extracted
    /\ input.form = "structured_output"
    /\ input.obj.questions # <<>>
    /\ input.obj.question.present
    /\ input.obj.prompt_ready
    /\ output.value.ready

\* --------------------------------------------------- a browser that polls
\* The server with the conversation's page open in a browser.
LiveInit ==
    /\ NewServer
    /\ input = NoValue
    /\ output = NoValue
    /\ browser = [p \in PRs |-> "idle"]
    /\ issueNumber = NoIssues
    /\ issues = <<>>
    /\ prStatus = Drafts
    /\ rawReady = NeverReady

\* The steps of Next whose storage calls succeed.
LiveNext == Next /\ faults' = faults

\* The goroutines are scheduled and their calls return (a handler or worker
\* step that stays enabled is taken), a git command may succeed, the user
\* retries a failed provisioning, and the browser sends the next poll for as
\* long as its page holds the polling element.
LiveSpec ==
    /\ LiveInit
    /\ [][LiveNext]_vars
    /\ WF_vars(\E t \in Live : ProvLock(t))
    /\ WF_vars(\E t \in Live : ProvGit(t, ""))
    /\ WF_vars(\E t \in Live : ProvSet(t))
    /\ WF_vars(\E t \in Live, tick \in BOOLEAN : SendQueue(t, "ok", tick))
    /\ WF_vars(\E t \in Live : SendLock(t, "ok"))
    /\ WF_vars(\E t \in Live, tick \in BOOLEAN : SendStore(t, "ok", tick))
    /\ WF_vars(\E t \in Live, res \in ClaudeOutcomes, tick \in BOOLEAN :
                   SendReturn(t, res, "ok", tick))
    /\ WF_vars(\E t \in Live : PollInit(t))
    /\ WF_vars(\E t \in Live, m \in 0..MaxMsgs : PollLast(t, m, "ok"))
    /\ WF_vars(\E t \in Live : PollCas(t))
    /\ WF_vars(\E t \in Live, m \in 0..MaxMsgs : PollConsume(t, m, "ok"))
    /\ WF_vars(\E t \in Live, m \in 0..MaxMsgs : BgLoad(t, m, "ok"))
    /\ WF_vars(\E t \in Live, m \in 0..MaxMsgs : BgLock(t, m, "ok"))
    /\ WF_vars(\E t \in Live, res \in ClaudeOutcomes, tick \in BOOLEAN :
                   BgReturn(t, res, "ok", tick))
    /\ WF_vars(\E p \in PRs : repoStatus[p].Status = "error" /\ handleRetry(p))
    /\ WF_vars(\E p \in PRs : browser[p] = "polling" /\ StartPoll(p))

\* Message m is a stored user message that has not been passed to the
\* subprocess: it was stored through the queued path (the direct path starts
\* the call in the step that stores the message).
Queued25(m) ==
    /\ m \in 1..Len(messages)
    /\ messages[m].role = "user"
    /\ Forwarded(m) = 0

\* Message m has been passed to the subprocess and an assistant message of its
\* conversation follows it.
Answered25(m) ==
    /\ m \in 1..Len(messages)
    /\ Forwarded(m) >= 1
    /\ \E j \in MsgIds(messages[m].pr) : j > m /\ messages[j].role = "assistant"

\* Provisioning has failed and the retries of the model are used up.
GaveUp25 == retries = MaxRetries /\ \E p \in PRs : repoStatus[p].Status = "error"

\* C25: with storage calls succeeding, provisioning eventually succeeding and
\* the browser polling while the last status response carried the directive,
\* every user message stored through the queued path is eventually forwarded
\* to the subprocess and followed by an assistant message (stated for the runs
\* in which provisioning does not fail beyond the last retry and the messages
\* table does not reach MaxMsgs rows).
C25_QueuedForwarded ==
    \A m \in 1..MaxMsgs :
        Queued25(m) ~> (Answered25(m) \/ GaveUp25 \/ Len(messages) = MaxMsgs)

\* ------------------------------------------- two sessions, two repositories
\* Repositories of the model with two conversations.
TwoRepos == {"r1", "r2"}

\* A server with no prompt request and no clone, serving two conversations
\* (each with its own session id) over two repositories.
ParInit ==
    /\ prRepo = [c \in Convs |-> ""]
    /\ messages = <<>>
    /\ gitDir = [r \in TwoRepos |-> FALSE]
    /\ repoStatus = [c \in Convs |-> NoEntry]
    /\ sessionMu = [c \in Convs |-> FALSE]
    /\ repoMu = [r \in TwoRepos |-> FALSE]
    /\ tasks = EmptyBag
    /\ waitq = [c \in Convs |-> <<>>]
    /\ calls = EmptyBag
    /\ delivered = EmptyBag
    /\ pollReply = NoReplies
    /\ retries = 0
    /\ faults = 0
    /\ revisions = <<>>
    /\ page = NoPage
    /\ lastPoll = NoReplies
    /\ input = NoValue
    /\ output = NoValue
    /\ browser = [c \in Convs |-> "none"]
    /\ issueNumber = [c \in Convs |-> 0]
    /\ issues = <<>>
    /\ prStatus = [c \in Convs |-> "draft"]
    /\ rawReady = NeverReady

\* Creates, provisioning workers and turns of the two conversations.
ParNext ==
    \/ \E c \in Convs, r \in TwoRepos : handleCreate(c, r)
    \/ \E t \in Live : ProvLock(t)
    \/ \E t \in Live, res \in {"", "cloning repository", "pulling repository"} : ProvGit(t, res)
    \/ \E t \in Live : ProvSet(t)
    \/ \E c \in Convs : StartSend(c)
    \/ \E t \in Live, d \in DbOutcomes, tick \in BOOLEAN : SendQueue(t, d, tick)
    \/ \E t \in Live, d \in DbOutcomes : SendLock(t, d)
    \/ \E t \in Live, d \in DbOutcomes, tick \in BOOLEAN : SendStore(t, d, tick)
    \/ \E t \in Live, res \in ClaudeOutcomes, d \in DbOutcomes, tick \in BOOLEAN :
           SendReturn(t, res, d, tick)

ParSpec == ParInit /\ [][ParNext]_vars

\* C26: locks of distinct keys are independent.  A turn that waits for its
\* session's lock obtains it whenever that session's own mutex is free, and
\* then starts its subprocess call, whatever other sessions hold or have in
\* flight; a provisioning worker obtains its repository's lock whenever that
\* repository's own mutex is free, and its git command ends, whatever runs for
\* other repositories.
C26_DistinctKeysIndependent ==
    \A t \in Live :
        /\ (t.kind = "send" /\ t.pc = "lock" /\ ~sessionMu[t.pr])
              => ENABLED SendLock(t, "ok")
        /\ (t.kind = "send" /\ t.pc = "store" /\ Room)
              => ENABLED SendStore(t, "ok", TRUE)
        /\ (t.kind = "prov" /\ t.pc = "lock" /\ ~repoMu[prRepo[t.pr]])
              => ENABLED ProvLock(t)
        /\ (t.kind = "prov" /\ t.pc = "git") => ENABLED ProvGit(t, "")

\* The subprocess calls of two sessions are in flight at the same time.
C26_Witness ==
    \E t, u \in Live :
        /\ t.kind = "send" /\ t.pc = "flight"
        /\ u.kind = "send" /\ u.pc = "flight"
        /\ t.pr # u.pr
        /\ sessionMu[t.pr] /\ sessionMu[u.pr]

\* The next step of a status poll in progress can be taken.
PollCanStep27(t) ==
    CASE t.pc = "init" -> ENABLED PollInit(t)
      [] t.pc = "last" -> ENABLED (\E m \in 0..MaxMsgs : PollLast(t, m, "ok"))
      [] t.pc = "cas" -> ENABLED PollCas(t)
      [] t.pc = "consume" -> ENABLED (\E m \in 0..MaxMsgs : PollConsume(t, m, "ok"))
      [] OTHER -> FALSE

\* A request that is admitted can be served at once: a page view, a poll and
\* a retry of an existing conversation, the create of the next conversation.
Served27(p) ==
    /\ prRepo[p] # "" =>
          /\ ENABLED StartPoll(p)
          /\ ENABLED (\E ms \in ListMessages(p), rs \in ListRevisions(p) :
                         handleShow(p, ms, rs, "ok"))
          /\ retries < MaxRetries => ENABLED handleRetry(p)
    /\ (prRepo[p] = "" /\ \A q \in PRs : q < p => prRepo[q] # "") =>
          ENABLED (\E r \in Repos : handleCreate(p, r))

\* C27: the page view, the status poll, create and retry take no session lock
\* and no repository lock and wait for no clone, pull or subprocess call: in
\* every reachable state, whoever holds the locks, an admitted request is
\* served, a poll in progress can take its next step, and the steps of these
\* requests leave both lock tables as they are.
C27_RequestsNeverWait ==
    /\ [](\A t \in Live : t.kind = "poll" => PollCanStep27(t))
    /\ [](CanServe => \A p \in PRs : Served27(p))
    /\ [][(page' # NoPage \/ PollStep \/ prRepo' # prRepo \/ retries' # retries)
             => UNCHANGED <<sessionMu, repoMu>>]_vars

\* A page view was served while a turn holds the session lock with its
\* subprocess call in flight.
C27_Witness ==
    /\ page # NoPage
    /\ \E t \in Live : t.kind = "send" /\ t.pc = "flight" /\ sessionMu[t.pr]

\* C28: for every prompt request and every interleaving of publish requests,
\* the tracker's create operation is invoked at most once (no two issues belong
\* to the same prompt request), a stored issue number never changes, and every
\* edit of a publish goes to the issue whose number is stored.
C28_IssueCreatedOnce ==
    /\ [](\A i, j \in DOMAIN issues : issues[i] = issues[j] => i = j)
    /\ [][\A c \in DOMAIN issueNumber :
              issueNumber[c] # 0 => issueNumber'[c] = issueNumber[c]]_vars
    /\ [][\A t \in Live :
              (PublishIssue(t, "ok") /\ t.op = "edit")
                  => t.seen = issueNumber[t.pr]]_vars

\* C29: ListMessages returns the messages of a conversation in creation order
\* (increasing id) and GetLastMessage returns its most recently created
\* message, also when several of its messages share a created_at second.
C29_CreationOrder ==
    \A c \in DOMAIN prRepo :
        /\ \A q \in ListMessages(c) :
               \A i, j \in DOMAIN q : i < j => q[i] < q[j]
        /\ GetLastMessage(c) = {Newest(c)}

\* Whether the table s is kept as the first rows of the table t.
Prefix30(s, t) == Len(s) <= Len(t) /\ \A i \in 1..Len(s) : t[i] = s[i]

\* Whether the step is the storing step of the publish t.
Stores30(t) ==
    \E m \in 0..MaxMsgs, d \in PublishOutcomes, tick \in BOOLEAN :
        PublishStore(t, m, d, tick)

\* Every operation keeps the stored messages and revisions as a prefix, and
\* only the storing step of a publish adds a revision.
AppendOnly30 ==
    /\ Prefix30(messages, messages')
    /\ Prefix30(revisions, revisions')
    /\ revisions' # revisions => \E t \in Live : Stores30(t)

Queues31(t) == \E d \in DbOutcomes, tick \in BOOLEAN : SendQueue(t, d, tick)

\* A send that reads one of the statuses cloning, pulling, error, processing
\* or responded goes on without joining the waiters of the session lock, and
\* neither of its steps changes the session locks, the subprocess calls or the
\* status table.
Frame31 ==
    /\ \A p \in PRs :
           (StartSend(p) /\ getRepoStatus(p).Status \in
                {"cloning", "pulling", "error", "processing", "responded"})
               => /\ \E t \in BagToSet(tasks') : t.kind = "send" /\ t.pc = "queue"
                  /\ UNCHANGED <<messages, waitq, sessionMu, calls, repoStatus>>
    /\ \A t \in Live :
           Queues31(t) => UNCHANGED <<waitq, sessionMu, calls, repoStatus>>

\* C31 as stated: a send that reads the status cloning, pulling, error,
\* processing or responded appends exactly one user message, makes no
\* subprocess call, does not acquire the session lock and leaves the status
\* entry unchanged.
C31_QueuedSendAlwaysStores ==
    [][/\ Frame31
       /\ \A t \in Live :
              Queues31(t) =>
                  /\ Len(messages') = Len(messages) + 1
                  /\ messages'[Len(messages')].pr = t.pr
                  /\ messages'[Len(messages')].role = "user"]_vars

\* C31: such a send makes no subprocess call, does not acquire the session
\* lock, leaves the status entry unchanged and keeps the stored messages; it
\* appends exactly one user message, or none when its insert fails.
C31_QueuedSendStores ==
    [][/\ Frame31
       /\ \A t \in Live :
              Queues31(t) =>
                  \/ /\ faults' = faults + 1
                     /\ messages' = messages
                  \/ /\ faults' = faults
                     /\ Len(messages') = Len(messages) + 1
                     /\ SubSeq(messages', 1, Len(messages)) = messages
                     /\ messages'[Len(messages')].pr = t.pr
                     /\ messages'[Len(messages')].role = "user"]_vars

\* Two user messages were stored by queued sends, no subprocess call has been
\* made and the status is processing.
C31_Witness ==
    /\ repoStatus[1].Status = "processing"
    /\ Len(messages) = 2
    /\ \A i \in 1..2 : messages[i].role = "user"
    /\ calls = EmptyBag
    /\ \A t \in Live : t.kind # "send"

\* The prompt-ready flags that a page view of the conversation may report.
ShowReadyResults(p) ==
    {ShowPromptReady(ms, rs) : ms \in ListMessages(p), rs \in ListRevisions(p)}

\* The revisions of the conversation.
RevIds32(p) == {i \in 1..Len(revisions) : revisions[i].pr = p}

\* The anchor of the revision that the conversation's latest publish stored
\* (0 for nil).
LatestAnchor32(p) ==
    revisions[CHOOSE i \in RevIds32(p) : \A j \in RevIds32(p) : j <= i].after

\* C32: right after a publish has ended (and so until a message is added) no
\* page view reports PromptReady, whatever the last payload says; and whenever
\* the newest message is an assistant's whose payload says prompt_ready and it
\* was created after the anchor of the latest revision, every page view
\* reports PromptReady.
C32_PromptReadyAfterPublish ==
    /\ [][\A t \in Live : Stores30(t) => ShowReadyResults(t.pr)' = {FALSE}]_vars
    /\ [](\A p \in PRs :
            (/\ Newest(p) # 0
             /\ RoleOf(Newest(p)) = "assistant"
             /\ rawReady[Newest(p)]
             /\ \/ RevIds32(p) = {}
                \/ /\ LatestAnchor32(p) > 0
                   /\ Newest(p) > LatestAnchor32(p))
                => ShowReadyResults(p) = {TRUE})

\* C33: for every raw output, the questions and the prompt-ready flag rendered
\* right after the turn equal those that extractQuestionsFromRaw derives from
\* the stored raw text.
C33_LiveEqualsStored ==
    output.fn = "handleSendMessage" => output.value = extractQuestionsFromRaw(input)

\* C34: the status of a prompt request changes only from draft to published
\* and from draft to deleted: a published request stays published and a deleted
\* request stays deleted under every sequence of publishes, deletes and sends.
C34_StatusTransitions ==
    [][\A p \in PRs :
          prStatus'[p] # prStatus[p] =>
              /\ prStatus[p] = "draft"
              /\ prStatus'[p] \in {"published", "deleted"}]_vars

\* The invocations that the step starts.
Started35 == {c \in BagToSet(calls') : CopiesIn(c, calls') > CopiesIn(c, calls)}

\* C35: the first subprocess invocation of a session is made with resume =
\* false and every later one with resume = true, whether a manual turn or an
\* auto-dispatch makes it and whether or not messages were queued before.
C35_ResumeAfterFirst ==
    [][\A c \in Started35 : c.resume = (calls # EmptyBag)]_vars

\* Auto-dispatch workers of a conversation, pending or running.
Workers36(p) ==
    LET S == {t \in Live : t.kind = "bg" /\ t.pr = p}
    IN  BagCardinality([t \in S |-> tasks[t]])

\* C36: a conversation has at most one auto-dispatch worker at any time, and
\* its status is processing only while it has one.
C36_OneWorker ==
    \A p \in PRs :
        /\ Workers36(p) <= 1
        /\ getRepoStatus(p).Status = "processing" => Workers36(p) = 1

\* The server whose storage calls fail only inside the auto-dispatch worker,
\* whose goroutines are scheduled and whose calls return: a worker or handler
\* step that stays enabled is taken, so the subprocess call of a
\* worker or of a manual turn returns (claude.SendMessage runs under
\* context.WithTimeout) and a free session lock is taken by a waiting worker.
WorkerInit ==
    /\ NewServer
    /\ prRepo = [p \in PRs |-> "r1"]
    /\ gitDir = [r \in Repos |-> TRUE]
    /\ input = NoValue
    /\ output = NoValue
    /\ browser = NoBrowser
    /\ issueNumber = NoIssues
    /\ issues = <<>>
    /\ prStatus = Drafts
    /\ rawReady = NeverReady

WorkerNext ==
    \/ \E p \in PRs : handleRetry(p) /\ faults' = faults
    \/ \E t \in Live : ProvLock(t) /\ faults' = faults
    \/ \E t \in Live, res \in {"", "pulling repository"} : ProvGit(t, res) /\ faults' = faults
    \/ \E t \in Live : ProvSet(t) /\ faults' = faults
    \/ \E p \in PRs : StartSend(p) /\ faults' = faults
    \/ \E t \in Live, tick \in BOOLEAN : SendQueue(t, "ok", tick)
    \/ \E t \in Live : SendLock(t, "ok")
    \/ \E t \in Live, tick \in BOOLEAN : SendStore(t, "ok", tick)
    \/ \E t \in Live, res \in ClaudeOutcomes, tick \in BOOLEAN : SendReturn(t, res, "ok", tick)
    \/ \E p \in PRs : StartPoll(p) /\ faults' = faults
    \/ \E t \in Live : PollInit(t)
    \/ \E t \in Live, m \in 0..MaxMsgs : PollLast(t, m, "ok")
    \/ \E t \in Live : PollCas(t)
    \/ \E t \in Live, m \in 0..MaxMsgs : PollConsume(t, m, "ok")
    \/ \E t \in Live, m \in 0..MaxMsgs, d \in DbOutcomes : BgLoad(t, m, d)
    \/ \E t \in Live, m \in 0..MaxMsgs, d \in DbOutcomes : BgLock(t, m, d)
    \/ \E t \in Live, res \in ClaudeOutcomes, d \in DbOutcomes, tick \in BOOLEAN :
           BgReturn(t, res, d, tick)

WorkerSpec ==
    /\ WorkerInit
    /\ [][WorkerNext]_vars
    /\ WF_vars(\E t \in Live, m \in 0..MaxMsgs, d \in DbOutcomes : BgLoad(t, m, d))
    /\ WF_vars(\E t \in Live, m \in 0..MaxMsgs, d \in DbOutcomes : BgLock(t, m, d))
    /\ WF_vars(\E t \in Live, res \in ClaudeOutcomes, d \in DbOutcomes, tick \in BOOLEAN :
                   BgReturn(t, res, d, tick))
    /\ WF_vars(\E t \in Live, tick \in BOOLEAN : SendStore(t, "ok", tick))
    /\ WF_vars(\E t \in Live, res \in ClaudeOutcomes, tick \in BOOLEAN :
                   SendReturn(t, res, "ok", tick))

\* Statuses an auto-dispatch worker leaves behind.
Final37 == {"ready", "responded", "error"}

\* C37: the step that ends an auto-dispatch worker stores ready, responded or
\* error for its conversation, on every exit path; and with the subprocess
\* calls returning, a status processing is eventually replaced (stated for the
\* runs in which the messages table does not reach MaxMsgs rows).
C37_WorkerLeavesProcessing ==
    /\ [][\A p \in PRs :
            Workers36(p)' < Workers36(p) => getRepoStatus(p)'.Status \in Final37]_vars
    /\ \A p \in PRs :
           (getRepoStatus(p).Status = "processing")
               ~> (getRepoStatus(p).Status # "processing" \/ Len(messages) = MaxMsgs)

\* A worker has ended on the path where the insert of the reply failed.
C37_Witness ==
    /\ \E p \in PRs : repoStatus[p] = Entry("error", "Failed to save response")
    /\ Len(messages) < MaxMsgs

\* The server under a clock that ticks between inserts, with its goroutines
\* scheduled and its calls returning: a step of a provisioning worker, of a
\* manual turn or of an auto-dispatch worker that stays enabled is taken, so
\* the git command and the subprocess call end and a free mutex is taken by a
\* goroutine that waits for it.
LockNext == Next /\ Ticking

LockSpec ==
    /\ Init
    /\ [][LockNext]_vars
    /\ WF_vars(\E t \in Live : ProvLock(t))
    /\ WF_vars(\E t \in Live, res \in {"", "cloning repository", "pulling repository"} :
                   ProvGit(t, res))
    /\ WF_vars(\E t \in Live : ProvSet(t))
    /\ WF_vars(\E t \in Live, d \in DbOutcomes : SendLock(t, d))
    /\ WF_vars(\E t \in Live, d \in DbOutcomes, tick \in BOOLEAN : SendStore(t, d, tick))
    /\ WF_vars(\E t \in Live, res \in ClaudeOutcomes, d \in DbOutcomes, tick \in BOOLEAN :
                   SendReturn(t, res, d, tick))
    /\ WF_vars(\E t \in Live, m \in 0..MaxMsgs, d \in DbOutcomes : BgLock(t, m, d))
    /\ WF_vars(\E t \in Live, res \in ClaudeOutcomes, d \in DbOutcomes, tick \in BOOLEAN :
                   BgReturn(t, res, d, tick))

\* Number of live goroutines in the set S of task records.
Count38(S) == BagCardinality([t \in S |-> tasks[t]])

\* Goroutines between lockSession's return and the deferred Unlock.
SessionHolders38(p) ==
    Count38({t \in Live : /\ t.pr = p
                          /\ \/ t.kind = "send" /\ t.pc \in {"store", "flight"}
                             \/ t.kind = "bg" /\ t.pc = "flight"})

\* Goroutines inside lockSession.
SessionWaiters38(p) ==
    Count38({t \in Live : t.pr = p /\ t.kind \in {"send", "bg"} /\ t.pc = "lock"})

\* Goroutines between lockRepo's return and the deferred Unlock.
RepoHolders38(r) ==
    Count38({t \in Live : t.kind = "prov" /\ t.pc \in {"git", "set"} /\ prRepo[t.pr] = r})

\* Goroutines inside lockRepo.
RepoWaiters38(r) ==
    Count38({t \in Live : t.kind = "prov" /\ t.pc = "lock" /\ prRepo[t.pr] = r})

\* C38: a mutex is held exactly while one goroutine is between its Lock and
\* its deferred Unlock (never by two, and never after its holder has returned,
\* early error returns included), and with the git commands and subprocess
\* calls ending, whenever n goroutines wait for a mutex one of them eventually
\* obtains it (stated for the runs in which the messages table does not reach
\* MaxMsgs rows).
C38_NoDeadlock ==
    /\ [](\A p \in PRs : SessionHolders38(p) = (IF sessionMu[p] THEN 1 ELSE 0))
    /\ [](\A r \in Repos : RepoHolders38(r) = (IF repoMu[r] THEN 1 ELSE 0))
    /\ \A n \in 1..MaxTasks :
           /\ \A p \in PRs :
                  (SessionWaiters38(p) = n)
                      ~> (SessionWaiters38(p) < n \/ Len(messages) = MaxMsgs)
           /\ \A r \in Repos : (RepoWaiters38(r) = n) ~> (RepoWaiters38(r) < n)

\* An auto-dispatch worker waits for the session lock that a manual turn
\* holds during its subprocess call, while the table has room for replies.
C38_Witness ==
    /\ \E t, u \in Live :
           /\ t.kind = "bg" /\ t.pc = "lock"
           /\ u.kind = "send" /\ u.pc = "flight" /\ u.pr = t.pr
           /\ sessionMu[t.pr]
    /\ Len(messages) < MaxMsgs
====
